---- MODULE Spec2Model ----
(***************************************************************************)
(* SalesHub backend: the sliding-window rate limiter                       *)
(* (utils/rate_limiter.py), the analytics aggregator and response timer    *)
(* (utils/analytics.py), the Gemini client's retry loop                    *)
(* (utils/gemini_client.py) and the chat send route (routes/chat.py).      *)
(*                                                                         *)
(* Time: time.time() is a float number of seconds.  It is modelled as an   *)
(* integer number of clock units, UnitsPerSecond units to the second, so   *)
(* that fractions of a second exist and int() truncates something.  The   *)
(* clock never runs backwards.  A method that reads time.time() and then   *)
(* enters `with self.lock:` is one action: the clock is read at the        *)
(* moment the critical section runs.                                       *)
(***************************************************************************)
EXTENDS Integers, Sequences, FiniteSets, TLC

\* ---------------------------------------------------------------- bounds
UnitsPerSecond == 2
MaxTicks == 3
MaxTicksRoute == 2
MaxTicksChat == 1
MaxChatRequests == 2
MaxAnalyticsCalls == 3
MaxGenClock == 8
MaxHistory == 12
MaxReportUsers == 11
MaxReportExtra == 2
MaxLockClock == 3
Users == {"u1"}

\* request.remote_addr of the callers
RemoteAddr == "addr"

\* the identities the limiter is asked about by the decorator
Identities == Users \cup {RemoteAddr}

\* str(uuid.uuid4()): the n-th value drawn; no two draws are equal and none
\* equals a user_id or an address
UuidNames == <<"uuid1", "uuid2", "uuid3", "uuid4", "uuid5", "uuid6", "uuid7", "uuid8">>
Workers == {"w1", "w2"}

\* RateLimiter(requests_per_minute, requests_per_day): the constructor's
\* parameters, scaled down from the global instance's 20 and 500.
requests_per_minute == 2
requests_per_day == 4

\* ------------------------------------------------------------- constants
MinuteSpan == 60
DaySpan == 86400
max_retries == 3
retry_delay == 2
HistoryLimit == 10
TopUsersLimit == 10

VARIABLES
    now,              \* time.time(), in clock units
    ticks,            \* number of clock advances so far (bounded by MaxTicks)
    minute_requests,  \* RateLimiter.minute_requests: identity -> list of timestamps
    day_requests,     \* RateLimiter.day_requests: identity -> list of timestamps
    pc,               \* per worker: position inside decorated_function
    req_user,         \* per worker: user_id of the request being served
    recorded,         \* history: every timestamp recorded per identity since its last reset
    pending,          \* history: per identity, the last rejection not yet followed by a record
    lastOp,           \* history: the last operation and what it returned
    daily_messages,   \* Analytics.daily_messages: date -> identity -> count
    response_times,   \* Analytics.response_times: list of <<timestamp, duration_ms>>
    daily_errors,     \* Analytics.daily_errors: date -> count
    total_messages,   \* Analytics.total_messages
    total_errors,     \* Analytics.total_errors
    gemini_available, \* GeminiClient.gemini_available, set by __init__
    analytics_lock,   \* Analytics.lock: "free" or the worker holding it
    tracked,          \* history: the completed track_* calls, in order of completion
    limiter_lock,     \* RateLimiter.lock: "free" or the worker holding it
    chat              \* per worker: the locals of send_message and of the calls it makes

clockVars == <<now, ticks>>

limiterVars == <<minute_requests, day_requests, recorded, pending>>

lockVars == <<analytics_lock, tracked, limiter_lock>>

analyticsVars == <<daily_messages, response_times, daily_errors,
                   total_messages, total_errors>>

vars == <<now, ticks, minute_requests, day_requests, pc, req_user,
          recorded, pending, lastOp, daily_messages, response_times,
          daily_errors, total_messages, total_errors, gemini_available, lockVars, chat>>

\* ---------------------------------------------------------------- helpers
Range(s) == {s[i] : i \in 1..Len(s)}

SeqMin(s) == CHOOSE x \in Range(s) : \A y \in Range(s) : x <= y

\* defaultdict(list): reading a missing key yields (and stores) an empty list
Get(d, u) == IF u \in DOMAIN d THEN d[u] ELSE <<>>

Put(d, u, v) == [x \in (DOMAIN d) \cup {u} |-> IF x = u THEN v ELSE d[x]]

\* int(x) of a float x given in clock units: truncation toward zero, in seconds
IntTrunc(x) == IF x >= 0 THEN x \div UnitsPerSecond
               ELSE -((-x) \div UnitsPerSecond)

\* number of entries of list s that are newer than cutoff
CountNewer(s, cutoff) == Cardinality({i \in 1..Len(s) : s[i] > cutoff})

\* number of occurrences of v in list s
Occurrences(s, v) == Cardinality({i \in 1..Len(s) : s[i] = v})

\* the arguments of _build_context_prompt; None is "none"
NoPromptArgs == [prompt |-> "none", conversation_history |-> <<>>, context |-> "none"]

\* the record of an operation; a field the operation does not return is 0,
\* FALSE or "none" (Python's None)
NoOp == [op |-> "none", user |-> "none", allowed |-> FALSE, kind |-> "none",
         retry_after |-> 0, minute_count |-> 0, day_count |-> 0,
         minute_remaining |-> 0, day_remaining |-> 0,
         due |-> FALSE, response_samples |-> 0,
         messages_today |-> 0, total_user_messages |-> 0,
         prompt_args |-> NoPromptArgs, parts |-> <<>>,
         date |-> 0, report_total |-> 0, unique_users |-> 0, errors |-> 0,
         top_users |-> <<>>,
         avg_response_time_ms |-> [ms |-> 0, hundredths |-> 0]]

\* an analytics call and the values it has read inside the critical section
NoCall == [op |-> "none", user_id |-> "none", duration_ms |-> 0]

NoSnap == [date_key |-> 0, count |-> 0, total |-> 0, current_time |-> 0,
           list |-> <<>>]

NoPending == [active |-> FALSE, at |-> 0, retry_after |-> 0]

\* the locals of a request before it starts; status 0: no response yet
NoChat == [user_id |-> "none", attempt |-> 0, last_exception |-> {},
           wait_time |-> 0, start_time |-> 0, text |-> "none", status |-> 0,
           retry_after |-> 0, calls |-> 0, sleeps |-> <<>>,
           backend_failed |-> FALSE, raised |-> FALSE, errors |-> 0,
           call |-> NoCall, snap |-> NoSnap,
           exc |-> FALSE, propagated |-> FALSE, tokens_used |-> "none",
           events |-> <<>>, wake_at |-> 0]

\* ------------------------------------------------------------ RateLimiter
\* the list comprehensions of _clean_old_requests: keep ts > cutoff
KeepAll(list, cutoff) == list

KeepNewer(list, cutoff) == SelectSeq(list, LAMBDA ts : ts > cutoff)

\* _clean_old_requests, the minute list
clean_minute_day_span(d, user_id, current_time) ==
    Put(d, user_id,
        KeepNewer(Get(d, user_id), current_time - DaySpan * UnitsPerSecond))

clean_minute(d, user_id, current_time) ==
    Put(d, user_id,
        KeepNewer(Get(d, user_id), current_time - MinuteSpan * UnitsPerSecond))

\* _clean_old_requests, the day list
clean_day(d, user_id, current_time) ==
    Put(d, user_id,
        KeepNewer(Get(d, user_id), current_time - DaySpan * UnitsPerSecond))

\* retry_after = int(span - (current_time - oldest_request)) + 1
RetryAfter(span, current_time, oldest_request) ==
    IntTrunc(span * UnitsPerSecond - (current_time - oldest_request)) + 1

\* the decision of check_rate_limit on the cleaned lists
LimitDecisionStrict(mlist, dlist, current_time) ==
    IF Len(mlist) > requests_per_minute
    THEN [allowed |-> FALSE, kind |-> "minute",
          retry_after |-> RetryAfter(MinuteSpan, current_time, SeqMin(mlist))]
    ELSE IF Len(dlist) > requests_per_day
    THEN [allowed |-> FALSE, kind |-> "day",
          retry_after |-> RetryAfter(DaySpan, current_time, SeqMin(dlist))]
    ELSE [allowed |-> TRUE, kind |-> "none", retry_after |-> 0]

LimitDecision_day_first(mlist, dlist, current_time) ==
    IF Len(dlist) >= requests_per_day
    THEN [allowed |-> FALSE, kind |-> "day",
          retry_after |-> RetryAfter(DaySpan, current_time, SeqMin(dlist))]
    ELSE IF Len(mlist) >= requests_per_minute
    THEN [allowed |-> FALSE, kind |-> "minute",
          retry_after |-> RetryAfter(MinuteSpan, current_time, SeqMin(mlist))]
    ELSE [allowed |-> TRUE, kind |-> "none", retry_after |-> 0]

LimitDecision(mlist, dlist, current_time) ==
    IF Len(mlist) >= requests_per_minute
    THEN [allowed |-> FALSE, kind |-> "minute",
          retry_after |-> RetryAfter(MinuteSpan, current_time, SeqMin(mlist))]
    ELSE IF Len(dlist) >= requests_per_day
    THEN [allowed |-> FALSE, kind |-> "day",
          retry_after |-> RetryAfter(DaySpan, current_time, SeqMin(dlist))]
    ELSE [allowed |-> TRUE, kind |-> "none", retry_after |-> 0]

\* the rejection of user_id at time `at` is due again at `at + retry_after`
IsDue(user_id) ==
    /\ pending[user_id].active
    /\ now = pending[user_id].at + pending[user_id].retry_after * UnitsPerSecond

\* check_rate_limit(user_id): prune, count, decide; nothing is appended
check_rate_limit(user_id) ==
    LET m == clean_minute(minute_requests, user_id, now)
        d == clean_day(day_requests, user_id, now)
        r == LimitDecision(m[user_id], d[user_id], now)
    IN  /\ minute_requests' = m
        /\ day_requests' = d
        /\ pending' = [pending EXCEPT ![user_id] =
                          IF r.allowed THEN NoPending
                          ELSE [active |-> TRUE, at |-> now,
                                retry_after |-> r.retry_after]]
        /\ lastOp' = [NoOp EXCEPT !.op = "check_rate_limit", !.user = user_id,
                                  !.allowed = r.allowed, !.kind = r.kind,
                                  !.retry_after = r.retry_after,
                                  !.minute_count = Len(m[user_id]),
                                  !.day_count = Len(d[user_id]),
                                  !.due = IsDue(user_id)]
        /\ UNCHANGED recorded

\* record_request(user_id): append the current time to both lists
record_request_minute_only(user_id) ==
    /\ minute_requests' = Put(minute_requests, user_id,
                              Append(Get(minute_requests, user_id), now))
    /\ day_requests' = Put(day_requests, user_id, Get(day_requests, user_id))
    /\ recorded' = [recorded EXCEPT ![user_id] = Append(@, now)]
    /\ pending' = [pending EXCEPT ![user_id] = NoPending]

record_request(user_id) ==
    /\ minute_requests' = Put(minute_requests, user_id,
                              Append(Get(minute_requests, user_id), now))
    /\ day_requests' = Put(day_requests, user_id,
                           Append(Get(day_requests, user_id), now))
    /\ recorded' = [recorded EXCEPT ![user_id] = Append(@, now)]
    /\ pending' = [pending EXCEPT ![user_id] = NoPending]

\* the remaining capacity get_usage reports next to a count
Remaining(limit, count) == limit - count

\* get_usage(user_id): prune, then report counts and remaining capacity
get_usage_recording(user_id) ==
    LET m == clean_minute(minute_requests, user_id, now)
        d == clean_day(day_requests, user_id, now)
    IN  /\ minute_requests' = Put(m, user_id, Append(m[user_id], now))
        /\ day_requests' = Put(d, user_id, Append(d[user_id], now))
        /\ lastOp' = [NoOp EXCEPT !.op = "get_usage", !.user = user_id,
                                  !.minute_count = Len(m[user_id]),
                                  !.day_count = Len(d[user_id]),
                                  !.minute_remaining =
                                      Remaining(requests_per_minute, Len(m[user_id])),
                                  !.day_remaining =
                                      Remaining(requests_per_day, Len(d[user_id]))]
        /\ UNCHANGED <<recorded, pending>>

get_usage(user_id) ==
    LET m == clean_minute(minute_requests, user_id, now)
        d == clean_day(day_requests, user_id, now)
    IN  /\ minute_requests' = m
        /\ day_requests' = d
        /\ lastOp' = [NoOp EXCEPT !.op = "get_usage", !.user = user_id,
                                  !.minute_count = Len(m[user_id]),
                                  !.day_count = Len(d[user_id]),
                                  !.minute_remaining =
                                      Remaining(requests_per_minute, Len(m[user_id])),
                                  !.day_remaining =
                                      Remaining(requests_per_day, Len(d[user_id]))]
        /\ UNCHANGED <<recorded, pending>>

\* reset_user(user_id): both lists become empty.  The record keeps the sizes
\* the lists had before.
reset_user_minute_only(user_id) ==
    /\ minute_requests' = Put(minute_requests, user_id, <<>>)
    /\ day_requests' = Put(day_requests, user_id, Get(day_requests, user_id))
    /\ recorded' = [recorded EXCEPT ![user_id] = <<>>]
    /\ pending' = [pending EXCEPT ![user_id] = NoPending]
    /\ lastOp' = [NoOp EXCEPT !.op = "reset_user", !.user = user_id,
                              !.minute_count = Len(Get(minute_requests, user_id)),
                              !.day_count = Len(Get(day_requests, user_id))]

reset_user_everyone(user_id) ==
    /\ minute_requests' = [u \in (DOMAIN minute_requests) \cup {user_id} |-> <<>>]
    /\ day_requests' = [u \in (DOMAIN day_requests) \cup {user_id} |-> <<>>]
    /\ recorded' = [u \in DOMAIN recorded |-> <<>>]
    /\ pending' = [u \in DOMAIN pending |-> NoPending]
    /\ lastOp' = [NoOp EXCEPT !.op = "reset_user", !.user = user_id,
                              !.minute_count = Len(Get(minute_requests, user_id)),
                              !.day_count = Len(Get(day_requests, user_id))]

reset_user(user_id) ==
    /\ minute_requests' = Put(minute_requests, user_id, <<>>)
    /\ day_requests' = Put(day_requests, user_id, <<>>)
    /\ recorded' = [recorded EXCEPT ![user_id] = <<>>]
    /\ pending' = [pending EXCEPT ![user_id] = NoPending]
    /\ lastOp' = [NoOp EXCEPT !.op = "reset_user", !.user = user_id,
                              !.minute_count = Len(Get(minute_requests, user_id)),
                              !.day_count = Len(Get(day_requests, user_id))]

\* get_rate_limit_status / an admin caller: the two calls made from outside
\* the decorator
UsageQuery(user_id) ==
    /\ get_usage(user_id)
    /\ UNCHANGED <<clockVars, pc, req_user, analyticsVars, gemini_available, lockVars, chat>>

AdminReset(user_id) ==
    /\ reset_user(user_id)
    /\ UNCHANGED <<clockVars, pc, req_user, analyticsVars, gemini_available, lockVars, chat>>

\* ------------------------------------------- rate_limit.decorated_function
\* user_id = data.get('user_id', request.remote_addr); a body without
\* user_id is "none"
decorator_user_id(body_user_id) ==
    IF body_user_id = "none" THEN RemoteAddr ELSE body_user_id

\* lines 150-167: take the identity, check; a rejection returns 429 at once
DecoratedCheck_no_return(w, user_id) ==
    /\ pc[w] = "idle"
    /\ check_rate_limit(user_id)
    /\ req_user' = [req_user EXCEPT ![w] = user_id]
    /\ pc' = [pc EXCEPT ![w] = "record"]
    /\ chat' = [chat EXCEPT ![w] =
                   IF lastOp'.allowed THEN NoChat
                   ELSE [NoChat EXCEPT !.status = 429,
                                       !.retry_after = lastOp'.retry_after]]
    /\ UNCHANGED <<clockVars, analyticsVars, gemini_available, lockVars>>

DecoratedCheck(w, user_id) ==
    /\ pc[w] = "idle"
    /\ check_rate_limit(user_id)
    /\ req_user' = [req_user EXCEPT ![w] = user_id]
    /\ pc' = [pc EXCEPT ![w] = IF lastOp'.allowed THEN "record" ELSE "idle"]
    /\ chat' = [chat EXCEPT ![w] =
                   IF lastOp'.allowed THEN NoChat
                   ELSE [NoChat EXCEPT !.status = 429,
                                       !.retry_after = lastOp'.retry_after]]
    /\ UNCHANGED <<clockVars, analyticsVars, gemini_available, lockVars>>

\* line 170: record the admitted request
DecoratedRecord(w) ==
    /\ pc[w] = "record"
    /\ record_request(req_user[w])
    /\ lastOp' = [NoOp EXCEPT !.op = "record_request", !.user = req_user[w]]
    /\ pc' = [pc EXCEPT ![w] = "handler"]
    /\ UNCHANGED <<clockVars, req_user, analyticsVars, gemini_available, lockVars, chat>>

\* line 172: the wrapped route f runs and returns
DecoratedHandler(w) ==
    /\ pc[w] = "handler"
    /\ pc' = [pc EXCEPT ![w] = "idle"]
    /\ lastOp' = NoOp
    /\ UNCHANGED <<clockVars, limiterVars, req_user, analyticsVars,
                   gemini_available, lockVars, chat>>

\* ------------------------------------------------------------------ clock
TickDeltas == {1, MinuteSpan * UnitsPerSecond - 1,
               (DaySpan - MinuteSpan) * UnitsPerSecond}

Tick(delta, limit) ==
    /\ ticks < limit
    /\ now' = now + delta
    /\ ticks' = ticks + 1
    /\ lastOp' = NoOp
    /\ UNCHANGED <<limiterVars, pc, req_user, analyticsVars, gemini_available, lockVars, chat>>

\* a rejected caller waits exactly the retry_after it was given
WaitRetryAfter(user_id, limit) ==
    /\ pending[user_id].active
    /\ pending[user_id].at + pending[user_id].retry_after * UnitsPerSecond > now
    /\ Tick(pending[user_id].at + pending[user_id].retry_after * UnitsPerSecond - now,
            limit)

\* -------------------------------------------------------------- Analytics
\* _get_date_key: the UTC date of the current time, as a day number
DateKey(t) == t \div (DaySpan * UnitsPerSecond)

\* defaultdict(int) / dict.get(key, 0)
GetCount(d, k) == IF k \in DOMAIN d THEN d[k] ELSE 0

\* defaultdict(lambda: defaultdict(int)): the per-identity counts of a date.
\* A dict keeps its keys in insertion order, so the counts of a date are the
\* list of its (identity, count) items in the order the identities were
\* first counted.
UserCounts(dm, date_key) == IF date_key \in DOMAIN dm THEN dm[date_key] ELSE <<>>

\* users.get(user_id, 0) / users[user_id] read for +=
UserCount(users, user_id) ==
    IF \E i \in 1..Len(users) : users[i].user_id = user_id
    THEN users[CHOOSE i \in 1..Len(users) : users[i].user_id = user_id].count
    ELSE 0

\* users[user_id] = count: a new key goes to the end, a known key keeps its place
SetUserCount(users, user_id, count) ==
    IF \E i \in 1..Len(users) : users[i].user_id = user_id
    THEN [i \in 1..Len(users) |->
             IF users[i].user_id = user_id
             THEN [user_id |-> user_id, count |-> count]
             ELSE users[i]]
    ELSE Append(users, [user_id |-> user_id, count |-> count])

\* self.daily_messages[date_key][user_id] += 1, given the count that was read
count_message_alone(dm, date_key, user_id, count) ==
    Put(dm, date_key, SetUserCount(<<>>, user_id, count + 1))

count_message(dm, date_key, user_id, count) ==
    Put(dm, date_key, SetUserCount(UserCounts(dm, date_key), user_id, count + 1))

\* track_message(user_id)
track_message(user_id) ==
    LET date_key == DateKey(now)
        users == UserCounts(daily_messages, date_key)
    IN  /\ daily_messages' = count_message(daily_messages, date_key, user_id,
                                            UserCount(users, user_id))
        /\ total_messages' = total_messages + 1

\* track_response_time(duration_ms): append, then keep the last 24 hours
track_response_time(duration_ms) ==
    response_times' =
        SelectSeq(Append(response_times, <<now, duration_ms>>),
                  LAMBDA s : s[1] > now - DaySpan * UnitsPerSecond)

\* track_error(error_type)
track_error ==
    /\ daily_errors' = Put(daily_errors, DateKey(now),
                           GetCount(daily_errors, DateKey(now)) + 1)
    /\ total_errors' = total_errors + 1

RECURSIVE SumDurations(_)
SumDurations(samples) ==
    IF samples = <<>> THEN 0
    ELSE Head(samples)[2] + SumDurations(Tail(samples))

\* round(sum / len, 2): whole milliseconds and hundredths of a millisecond
AverageMs(samples) ==
    IF Len(samples) = 0 THEN [ms |-> 0, hundredths |-> 0]
    ELSE LET n == Len(samples)
             total == SumDurations(samples)
             h == (200 * (total % n) + n) \div (2 * n)
         IN  IF h = 100 THEN [ms |-> total \div n + 1, hundredths |-> 0]
             ELSE [ms |-> total \div n, hundredths |-> h]

\* the samples get_system_stats averages over: all that are stored
StatsSamples(samples, current_time) == samples

\* get_system_stats(): reading today's entries of the two defaultdicts
\* creates them
get_system_stats ==
    LET date_key == DateKey(now)
        samples == StatsSamples(response_times, now)
    IN  /\ daily_messages' = Put(daily_messages, date_key,
                                 UserCounts(daily_messages, date_key))
        /\ daily_errors' = Put(daily_errors, date_key,
                               GetCount(daily_errors, date_key))
        /\ lastOp' = [NoOp EXCEPT !.op = "get_system_stats",
                                  !.avg_response_time_ms = AverageMs(samples),
                                  !.response_samples = Len(samples)]
        /\ UNCHANGED <<response_times, total_messages, total_errors>>

\* the stats route calling get_system_stats
StatsQuery ==
    /\ get_system_stats
    /\ UNCHANGED <<clockVars, limiterVars, pc, req_user, gemini_available, lockVars, chat>>

\* get_user_stats(user_id): reading today's entry of the defaultdict creates
\* it; the total is summed over every date
RECURSIVE SumOverDates(_, _, _)
SumOverDates(dm, dates, user_id) ==
    IF dates = {} THEN 0
    ELSE LET d == CHOOSE x \in dates : TRUE
         IN  UserCount(dm[d], user_id) + SumOverDates(dm, dates \ {d}, user_id)

get_user_stats(user_id) ==
    LET date_key == DateKey(now)
        today == UserCounts(daily_messages, date_key)
        dm == Put(daily_messages, date_key, today)
    IN  /\ daily_messages' = dm
        /\ lastOp' = [NoOp EXCEPT !.op = "get_user_stats",
                                  !.user = user_id,
                                  !.messages_today = UserCount(today, user_id),
                                  !.total_user_messages =
                                      SumOverDates(dm, DOMAIN dm, user_id)]
        /\ UNCHANGED <<response_times, daily_errors, total_messages, total_errors>>

\* sum(user_messages.values())
RECURSIVE SumCounts(_)
SumCounts(users) ==
    IF users = <<>> THEN 0 ELSE Head(users).count + SumCounts(Tail(users))

\* sorted(items, key=count, reverse=True): the sort is stable, and reverse
\* keeps items of equal count in their original order.  An item goes behind
\* every item already placed whose count is at least its own.
InsertBeforeEqual(sorted, item) ==
    LET ahead == Cardinality({i \in 1..Len(sorted) : sorted[i].count > item.count})
    IN  SubSeq(sorted, 1, ahead) \o <<item>> \o SubSeq(sorted, ahead + 1, Len(sorted))

InsertByCount(sorted, item) ==
    LET ahead == Cardinality({i \in 1..Len(sorted) : sorted[i].count >= item.count})
    IN  SubSeq(sorted, 1, ahead) \o <<item>> \o SubSeq(sorted, ahead + 1, Len(sorted))

RECURSIVE SortedByCount(_, _)
SortedByCount(items, sorted) ==
    IF items = <<>> THEN sorted
    ELSE SortedByCount(Tail(items), InsertByCount(sorted, Head(items)))

\* [:10]
FirstN(list, n) == SubSeq(list, 1, IF Len(list) > n THEN n ELSE Len(list))

\* get_daily_report(date_str): daily_messages.get(date_str, {}) and
\* daily_errors.get(date_str, 0) create nothing
get_daily_report(date_str) ==
    LET user_messages == UserCounts(daily_messages, date_str)
    IN  /\ lastOp' = [NoOp EXCEPT !.op = "get_daily_report",
                                  !.date = date_str,
                                  !.report_total = SumCounts(user_messages),
                                  !.unique_users = Len(user_messages),
                                  !.errors = GetCount(daily_errors, date_str),
                                  !.top_users =
                                      FirstN(SortedByCount(user_messages, <<>>),
                                             TopUsersLimit)]
        /\ UNCHANGED analyticsVars

\* ---------------------------------------------- Analytics, the daily report
\* The identities that send messages.  The identities of a date are first
\* counted in the order of ReportUserNames, except that the first two may
\* come in either order; an identity sends its further messages before the
\* next identity is first counted, and at most MaxReportExtra messages are
\* sent beyond the first message of each identity on each date.
ReportUserNames == <<"r1", "r2", "r3", "r4", "r5", "r6", "r7", "r8", "r9", "r10",
                     "r11", "r12", "r13", "r14", "r15", "r16">>

ReportTrack(i) ==
    LET user_id == ReportUserNames[i]
        users == UserCounts(daily_messages, DateKey(now))
        entries == Cardinality(UNION {{<<d, k>> : k \in 1..Len(daily_messages[d])} :
                                         d \in DOMAIN daily_messages})
    IN  /\ IF UserCount(users, user_id) = 0
           THEN \/ i = Len(users) + 1
                \/ i <= 2 /\ Len(users) < 2
           ELSE /\ users[Len(users)].user_id = user_id
                /\ total_messages + 1 <= MaxReportExtra + entries
        /\ track_message(user_id)
        /\ tracked' = Append(tracked,
                             [op |-> "track_message", user_id |-> user_id,
                              duration_ms |-> 0, date_key |-> DateKey(now),
                              at |-> 0])
        /\ lastOp' = NoOp
        /\ UNCHANGED <<clockVars, limiterVars, pc, req_user, response_times,
                       daily_errors, total_errors, gemini_available,
                       analytics_lock, limiter_lock, chat>>

\* the date changes; at most one message was sent on each earlier date
ReportTick(delta) ==
    /\ total_messages <= ticks + 1
    /\ Tick(delta, MaxTicksChat)

\* the report of a date; the default is today
DailyReport(date_str) ==
    /\ date_str >= 0
    /\ get_daily_report(date_str)
    /\ UNCHANGED <<clockVars, limiterVars, pc, req_user, gemini_available,
                   lockVars, chat>>

\* ------------------------------------------- Analytics, callers in parallel
\* The identities, durations and calls of the callers.  Each track_* method
\* is `with self.lock:` around reads followed by writes; a caller takes the
\* lock and reads in one step, and writes and releases in the next.
AnalyticsUsers == {"u1", "u2"}

Durations == {100}

AnalyticsCalls ==
    {[op |-> "track_message", user_id |-> u, duration_ms |-> 0] : u \in AnalyticsUsers}
    \cup {[op |-> "track_response_time", user_id |-> "none", duration_ms |-> d] :
             d \in Durations}
    \cup {[op |-> "track_error", user_id |-> "none", duration_ms |-> 0]}

\* threading.Lock.acquire() of `with self.lock:`: blocks while the lock is held
lock_acquire_noblock(w) == analytics_lock' = w

lock_acquire(w) ==
    /\ analytics_lock = "free"
    /\ analytics_lock' = w

\* a caller invokes a track_* method and arrives at `with self.lock:`
AnCall(w, call) ==
    /\ pc[w] = "idle"
    /\ Len(tracked) + Cardinality({v \in Workers : pc[v] # "idle"}) < MaxAnalyticsCalls
    /\ chat' = [chat EXCEPT ![w] = [NoChat EXCEPT !.call = call]]
    /\ pc' = [pc EXCEPT ![w] = "lock"]
    /\ lastOp' = NoOp
    /\ UNCHANGED <<clockVars, limiterVars, req_user, analyticsVars,
                   gemini_available, lockVars>>

\* the values the method reads once it holds the lock
SnapOf(call) ==
    LET date_key == DateKey(now)
    IN  IF call.op = "track_message"
        THEN [NoSnap EXCEPT !.date_key = date_key,
                            !.count = UserCount(UserCounts(daily_messages, date_key),
                                               call.user_id),
                            !.total = total_messages]
        ELSE IF call.op = "track_error"
        THEN [NoSnap EXCEPT !.date_key = date_key,
                            !.count = GetCount(daily_errors, date_key),
                            !.total = total_errors]
        ELSE [NoSnap EXCEPT !.current_time = now, !.list = response_times]

\* the lock is taken and the method reads
AnEnter(w) ==
    /\ pc[w] = "lock"
    /\ lock_acquire(w)
    /\ chat' = [chat EXCEPT ![w].snap = SnapOf(chat[w].call)]
    /\ pc' = [pc EXCEPT ![w] = "locked"]
    /\ lastOp' = NoOp
    /\ UNCHANGED <<clockVars, limiterVars, req_user, analyticsVars,
                   gemini_available, tracked, limiter_lock>>

\* the method writes what it computed from the values it read, and the
\* with block releases the lock
AnExit(w) ==
    LET call == chat[w].call
        snap == chat[w].snap
    IN  /\ pc[w] = "locked"
        /\ IF call.op = "track_message"
           THEN /\ daily_messages' = count_message(daily_messages, snap.date_key,
                                                   call.user_id, snap.count)
                /\ total_messages' = snap.total + 1
                /\ UNCHANGED <<response_times, daily_errors, total_errors>>
           ELSE IF call.op = "track_error"
           THEN /\ daily_errors' = Put(daily_errors, snap.date_key, snap.count + 1)
                /\ total_errors' = snap.total + 1
                /\ UNCHANGED <<daily_messages, response_times, total_messages>>
           ELSE /\ response_times' =
                       SelectSeq(Append(snap.list, <<snap.current_time, call.duration_ms>>),
                                 LAMBDA s : s[1] > snap.current_time - DaySpan * UnitsPerSecond)
                /\ UNCHANGED <<daily_messages, daily_errors, total_messages,
                               total_errors>>
        /\ analytics_lock' = "free"
        /\ tracked' = Append(tracked, [op |-> call.op, user_id |-> call.user_id,
                                       duration_ms |-> call.duration_ms,
                                       date_key |-> snap.date_key,
                                       at |-> snap.current_time])
        /\ chat' = [chat EXCEPT ![w] = NoChat]
        /\ pc' = [pc EXCEPT ![w] = "idle"]
        /\ lastOp' = NoOp
        /\ UNCHANGED <<clockVars, limiterVars, req_user, gemini_available, limiter_lock>>

\* get_user_stats and get_system_stats run wholly inside `with self.lock:`
AnUserStats(user_id) ==
    /\ analytics_lock = "free"
    /\ get_user_stats(user_id)
    /\ UNCHANGED <<clockVars, limiterVars, pc, req_user, gemini_available,
                   lockVars, chat>>

AnSystemStats ==
    /\ analytics_lock = "free"
    /\ StatsQuery

\* get_daily_report runs wholly inside `with self.lock:`
AnDailyReport(date_str) ==
    /\ analytics_lock = "free"
    /\ DailyReport(date_str)

\* ----------------------------------------------------------- GeminiClient
\* __init__: the client is available when the API key is configured and
\* genai.configure / GenerativeModel do not raise
init_available(key_configured, init_ok) ==
    IF ~key_configured THEN FALSE
    ELSE IF init_ok THEN TRUE
    ELSE FALSE

\* str(e) of a backend exception, kept as the set of the markers the handlers
\* look for in it
BackendErrors == {{"quota"}, {"safety"}, {}, {"429", "safety"}}

\* "429" in error_str or "quota" in error_str.lower()
retry_every_error(e) == TRUE

IsRateLimitError(e) == "429" \in e \/ "quota" \in e

\* "safety" in error_str.lower()
IsSafetyError(e) == "safety" \in e

\* the except branch of generate_response
ErrorText_safety_first(e) ==
    IF IsSafetyError(e) THEN "rephrase"
    ELSE IF IsRateLimitError(e) THEN "high_demand"
    ELSE "trouble"

ErrorText(e) ==
    IF IsRateLimitError(e) THEN "high_demand"
    ELSE IF IsSafetyError(e) THEN "rephrase"
    ELSE "trouble"

\* _build_context_prompt.  The prompt is "\n".join(parts); it is kept as the
\* list of its parts, each part a line with its fixed wording (tag), the
\* speaker label of a history line, and the text inserted into it.
Part(tag, label, text) == [tag |-> tag, label |-> label, text |-> text]

\* conversation_history[-10:]
FirstTurns(history) ==
    SubSeq(history, 1, IF Len(history) > HistoryLimit THEN HistoryLimit ELSE Len(history))

LastTurns(history) ==
    SubSeq(history,
           IF Len(history) > HistoryLimit THEN Len(history) - HistoryLimit + 1 ELSE 1,
           Len(history))

\* f"User: {text}" if role == 'user' else f"Assistant: {text}"
TurnLine(turn) ==
    IF turn.role = "user" THEN Part("turn", "User", turn.text)
    ELSE Part("turn", "Assistant", turn.text)

\* the truth value of a str-or-None argument: None and "" are false
Truthy(x) == x # "none" /\ x # ""

build_context_prompt(prompt, conversation_history, context) ==
    LET turns == LastTurns(conversation_history)
        sys == <<Part("system", "none", "none")>>
        hist == IF Len(conversation_history) > 0
                THEN <<Part("history_begin", "none", "none")>>
                     \o [i \in 1..Len(turns) |-> TurnLine(turns[i])]
                     \o <<Part("history_end", "none", "none")>>
                ELSE <<>>
        ctx == IF Truthy(context)
               THEN <<Part("context", "none", context)>>
               ELSE <<>>
    IN  sys \o hist \o ctx
            \o <<Part("message", "none", prompt), Part("closing", "none", "none")>>

\* the inputs: messages, contexts (None, empty, a text), and histories of
\* every length up to MaxHistory whose turns carry distinct texts and
\* alternate between the two roles, either role first
PromptMessages == {"m1", "m2"}

PromptContexts == {"none", "", "ctx"}

TurnTexts == <<"t1", "t2", "t3", "t4", "t5", "t6", "t7", "t8", "t9", "t10",
               "t11", "t12", "t13", "t14", "t15", "t16">>

HistoryOf(n, first) ==
    [i \in 1..n |-> [role |-> IF (i + first) % 2 = 1 THEN "user" ELSE "assistant",
                     text |-> TurnTexts[i]]]

PromptHistories == {HistoryOf(n, first) : n \in 0..MaxHistory, first \in {0, 1}}

BuildContextPrompt(prompt, conversation_history, context) ==
    /\ lastOp' = [NoOp EXCEPT !.op = "_build_context_prompt",
                              !.prompt_args = [prompt |-> prompt,
                                               conversation_history |-> conversation_history,
                                               context |-> context],
                              !.parts = build_context_prompt(prompt, conversation_history,
                                                             context)]
    /\ UNCHANGED <<clockVars, limiterVars, pc, req_user, analyticsVars,
                   gemini_available, lockVars, chat>>

\* `except Exception as e` of generate_response: what it catches
generate_catches_rate_limit_only(e) == IsRateLimitError(e)

generate_catches(e) == TRUE

\* an exception e leaves _call_api_with_retry: the except branch of
\* generate_response returns the text for it; an exception it does not catch
\* leaves generate_response
generate_except(c, e) ==
    IF generate_catches(e)
    THEN [c EXCEPT !.backend_failed = TRUE, !.text = ErrorText(e)]
    ELSE [c EXCEPT !.exc = TRUE]

\* wait_time = self.retry_delay * (2 ** attempt)
wait_time_flat(attempt) == retry_delay * 2

wait_time_of(attempt) == retry_delay * (2 ^ attempt)

\* for attempt in range(self.max_retries): is there a next iteration
next_attempt_unbounded(attempt) == attempt + 1 <= max_retries

next_attempt(attempt) == attempt + 1 < max_retries

\* `if not self.gemini_available:` of generate_response
short_circuit_never(available) == FALSE

short_circuit(available) == ~available

\* the entries of a call's history: a backend attempt with its outcome (an
\* answer, a failure the loop retries, any other failure), or a sleep
AttemptEvent(ok, e) ==
    [kind |-> "attempt",
     outcome |-> IF ok THEN "ok" ELSE IF IsRateLimitError(e) THEN "rate_limit" ELSE "error",
     secs |-> 0]

SleepEvent(secs) == [kind |-> "sleep", outcome |-> "none", secs |-> secs]

\* ------------------------------------------------------------ send_message
\* duration_ms = (end_time - start_time) * 1000, whole milliseconds
ToMillis(units) == (units * 1000) \div UnitsPerSecond

\* data.get('user_id') of the request the decorator charged to `charged`:
\* the decorator took the address exactly when the body has no user_id
body_user_id(charged) == IF charged = RemoteAddr THEN "none" ELSE charged

\* line 54: user_id = data.get('user_id', str(uuid.uuid4())); n is the
\* number of the draw
handler_user_id(body, n) == IF body = "none" THEN UuidNames[n] ELSE body

\* lines 36-58: the body is validated; a valid message is tracked
SendValidate_track_first(w, valid) ==
    /\ pc[w] = "handler"
    /\ track_message(handler_user_id(body_user_id(req_user[w]), total_messages + 1))
    /\ IF valid
       THEN /\ chat' = [chat EXCEPT ![w].user_id =
                           handler_user_id(body_user_id(req_user[w]),
                                           total_messages + 1)]
            /\ pc' = [pc EXCEPT ![w] = "store"]
       ELSE /\ chat' = [chat EXCEPT ![w].status = 400]
            /\ pc' = [pc EXCEPT ![w] = "idle"]
    /\ lastOp' = NoOp
    /\ UNCHANGED <<clockVars, limiterVars, req_user, response_times,
                   daily_errors, total_errors, gemini_available, lockVars>>

SendValidate(w, valid) ==
    /\ pc[w] = "handler"
    /\ IF valid
       THEN /\ track_message(handler_user_id(body_user_id(req_user[w]),
                                             total_messages + 1))
            /\ chat' = [chat EXCEPT ![w].user_id =
                           handler_user_id(body_user_id(req_user[w]),
                                           total_messages + 1)]
            /\ pc' = [pc EXCEPT ![w] = "store"]
       ELSE /\ chat' = [chat EXCEPT ![w].status = 400]
            /\ pc' = [pc EXCEPT ![w] = "idle"]
            /\ UNCHANGED <<daily_messages, total_messages>>
    /\ lastOp' = NoOp
    /\ UNCHANGED <<clockVars, limiterVars, req_user, response_times,
                   daily_errors, total_errors, gemini_available, lockVars>>

\* lines 132-138: the handler's except branch
SendFails(w) ==
    /\ track_error
    /\ chat' = [chat EXCEPT ![w].status = 500, ![w].raised = TRUE,
                            ![w].errors = @ + 1]
    /\ pc' = [pc EXCEPT ![w] = "idle"]

\* lines 60-82: user and message rows, history, context; the database may raise
SendStore(w, ok) ==
    /\ pc[w] = "store"
    /\ IF ok
       THEN /\ pc' = [pc EXCEPT ![w] = "generate"]
            /\ UNCHANGED <<chat, daily_errors, total_errors>>
       ELSE SendFails(w)
    /\ lastOp' = NoOp
    /\ UNCHANGED <<clockVars, limiterVars, req_user, daily_messages,
                   response_times, total_messages, gemini_available, lockVars>>

\* lines 85-87 and generate_response lines 174-187: the timer starts; an
\* unavailable client answers with the configuration text at once.  The
\* prompt of line 187 has no effect on the retry loop; its construction is
\* BuildContextPrompt.
SendGenerate(w) ==
    /\ pc[w] = "generate"
    /\ IF short_circuit(gemini_available)
       THEN /\ chat' = [chat EXCEPT ![w].start_time = now,
                                    ![w].text = "config_fallback"]
            /\ pc' = [pc EXCEPT ![w] = "timer_exit"]
       ELSE /\ chat' = [chat EXCEPT ![w].start_time = now, ![w].attempt = 0]
            /\ pc' = [pc EXCEPT ![w] = "attempt"]
    /\ lastOp' = NoOp
    /\ UNCHANGED <<clockVars, limiterVars, req_user, analyticsVars, gemini_available, lockVars>>

\* _call_api_with_retry, the try body: generate_content answers and
\* response.text is returned
GenSuccess(w) ==
    /\ pc[w] = "attempt"
    /\ chat' = [chat EXCEPT ![w].calls = @ + 1, ![w].text = "response",
                            ![w].events = Append(@, AttemptEvent(TRUE, {}))]
    /\ pc' = [pc EXCEPT ![w] = "timer_exit"]
    /\ lastOp' = NoOp
    /\ UNCHANGED <<clockVars, limiterVars, req_user, analyticsVars, gemini_available, lockVars>>

\* _call_api_with_retry, the except branch up to the sleep: generate_content
\* raises e.  A rate-limit error goes to sleep; any other error breaks out of
\* the loop, is raised, and generate_response turns it into a text.
GenFailure(w, e) ==
    /\ pc[w] = "attempt"
    /\ IF IsRateLimitError(e)
       THEN /\ chat' = [chat EXCEPT ![w].calls = @ + 1,
                                    ![w].last_exception = e,
                                    ![w].wait_time = wait_time_of(chat[w].attempt),
                                    ![w].events = Append(@, AttemptEvent(FALSE, e))]
            /\ pc' = [pc EXCEPT ![w] = "sleep"]
       ELSE /\ chat' = [chat EXCEPT ![w] = generate_except(
                            [chat[w] EXCEPT !.calls = @ + 1,
                                            !.last_exception = e,
                                            !.events = Append(@, AttemptEvent(FALSE, e))],
                            e)]
            /\ pc' = [pc EXCEPT ![w] = "timer_exit"]
    /\ lastOp' = NoOp
    /\ UNCHANGED <<clockVars, limiterVars, req_user, analyticsVars, gemini_available, lockVars>>

\* time.sleep(wait_time); continue.  When the loop is exhausted the last
\* exception is raised and generate_response turns it into a text.
GenSleep(w) ==
    /\ pc[w] = "sleep"
    /\ now' = now + chat[w].wait_time * UnitsPerSecond
    /\ IF next_attempt(chat[w].attempt)
       THEN /\ chat' = [chat EXCEPT ![w].attempt = @ + 1,
                                    ![w].sleeps = Append(@, chat[w].wait_time),
                                    ![w].events = Append(@, SleepEvent(chat[w].wait_time))]
            /\ pc' = [pc EXCEPT ![w] = "attempt"]
       ELSE /\ chat' = [chat EXCEPT ![w] = generate_except(
                            [chat[w] EXCEPT !.attempt = @ + 1,
                                            !.sleeps = Append(@, chat[w].wait_time),
                                            !.events = Append(@, SleepEvent(chat[w].wait_time))],
                            chat[w].last_exception)]
            /\ pc' = [pc EXCEPT ![w] = "timer_exit"]
    /\ lastOp' = NoOp
    /\ UNCHANGED <<ticks, limiterVars, req_user, analyticsVars, gemini_available, lockVars>>

\* ResponseTimer.__exit__(exc_type, ...): report the duration, and an error
\* when the scope was left by an exception
timer_exit_silent(start_time, exc) ==
    /\ track_response_time(ToMillis(now - start_time))
    /\ UNCHANGED <<daily_errors, total_errors>>

timer_exit(start_time, exc) ==
    /\ track_response_time(ToMillis(now - start_time))
    /\ IF exc THEN track_error ELSE UNCHANGED <<daily_errors, total_errors>>

\* `return False` of __exit__: an exception that left the scope is not
\* suppressed
exit_propagates(exc) == exc

\* line 86-91: the with block ends: __exit__ runs, with the exception that
\* left generate_response if there is one
SendTimerExit(w) ==
    /\ pc[w] = "timer_exit"
    /\ timer_exit(chat[w].start_time, chat[w].exc)
    /\ chat' = [chat EXCEPT ![w].propagated = exit_propagates(chat[w].exc)]
    /\ pc' = [pc EXCEPT ![w] = "commit"]
    /\ lastOp' = NoOp
    /\ UNCHANGED <<clockVars, limiterVars, req_user, daily_messages,
                   total_messages, gemini_available, lockVars>>

\* ---------------------------------------------------------- ResponseTimer
\* __enter__: `with ResponseTimer():` around any body
TimerEnter(w) ==
    /\ pc[w] = "idle"
    /\ ticks < MaxTicks
    /\ chat' = [chat EXCEPT ![w] = [NoChat EXCEPT !.start_time = now]]
    /\ pc' = [pc EXCEPT ![w] = "scope"]
    /\ lastOp' = NoOp
    /\ UNCHANGED <<clockVars, limiterVars, req_user, analyticsVars,
                   gemini_available, lockVars>>

\* the body of the with statement runs for a while and ends, normally or
\* by raising
ScopeBody(w, delta, raises) ==
    /\ pc[w] = "scope"
    /\ ticks < MaxTicks
    /\ now' = now + delta
    /\ ticks' = ticks + 1
    /\ chat' = [chat EXCEPT ![w].exc = raises]
    /\ pc' = [pc EXCEPT ![w] = "exiting"]
    /\ lastOp' = NoOp
    /\ UNCHANGED <<limiterVars, req_user, analyticsVars, gemini_available, lockVars>>

\* __exit__ runs and returns False
ScopeExit(w) ==
    /\ pc[w] = "exiting"
    /\ timer_exit(chat[w].start_time, chat[w].exc)
    /\ chat' = [chat EXCEPT ![w].propagated = exit_propagates(chat[w].exc)]
    /\ pc' = [pc EXCEPT ![w] = "idle"]
    /\ lastOp' = NoOp
    /\ UNCHANGED <<clockVars, limiterVars, req_user, daily_messages,
                   total_messages, gemini_available, lockVars>>

\* lines 94-110: the assistant row is stored and committed; the database may
\* raise, and an exception propagated out of the with block arrives at the
\* except branch instead
SendCommit(w, ok) ==
    /\ pc[w] = "commit"
    /\ IF ok /\ ~chat[w].propagated
       THEN /\ pc' = [pc EXCEPT ![w] = "usage"]
            /\ UNCHANGED <<chat, daily_errors, total_errors>>
       ELSE SendFails(w)
    /\ lastOp' = NoOp
    /\ UNCHANGED <<clockVars, limiterVars, req_user, daily_messages,
                   response_times, total_messages, gemini_available, lockVars>>

\* lines 112-130: the usage of the identity goes into the 200 response
SendUsage(w) ==
    /\ pc[w] = "usage"
    /\ get_usage(chat[w].user_id)
    /\ chat' = [chat EXCEPT ![w].status = 200]
    /\ pc' = [pc EXCEPT ![w] = "idle"]
    /\ UNCHANGED <<clockVars, req_user, analyticsVars, gemini_available, lockVars>>

\* the number of admissions recorded so far, over a set of identities
RECURSIVE TotalRecorded(_)
TotalRecorded(ids) ==
    IF ids = {} THEN 0
    ELSE LET u == CHOOSE x \in ids : TRUE
         IN  Len(recorded[u]) + TotalRecorded(ids \ {u})

\* ------------------------------------- the request path, lock by lock
\* `with self.lock:` of the RateLimiter methods: the lock is a
\* threading.Lock, taken only when free
limiter_lock_acquire(w) ==
    /\ limiter_lock = "free"
    /\ limiter_lock' = w

\* the end of a `with self.lock:` block
lock_release_never(holder) == holder

lock_release(holder) == "free"

\* the positions at which a worker waits for a lock, and the position inside
\* the critical section it waits for
LimiterWaits == {"check_wait", "record_wait", "usage_wait"}

AnalyticsWaits == {"track_wait", "timer_wait", "error_wait"}

InsideOf(position) ==
    CASE position = "check_wait" -> "check_in"
      [] position = "record_wait" -> "record_in"
      [] position = "usage_wait" -> "usage_in"
      [] position = "track_wait" -> "track_in"
      [] position = "timer_wait" -> "timer_in"
      [] position = "error_wait" -> "error_in"

\* a request with a valid body arrives at the decorator
LockRequest(w, body) ==
    /\ pc[w] = "idle"
    /\ TotalRecorded(Identities) < MaxChatRequests
    /\ req_user' = [req_user EXCEPT ![w] = decorator_user_id(body)]
    /\ chat' = [chat EXCEPT ![w] = NoChat]
    /\ pc' = [pc EXCEPT ![w] = "check_wait"]
    /\ lastOp' = NoOp
    /\ UNCHANGED <<clockVars, limiterVars, analyticsVars, gemini_available, lockVars>>

\* check_rate_limit, record_request, get_usage: the lock is taken
LockLimiterEnter(w) ==
    /\ pc[w] \in LimiterWaits
    /\ limiter_lock_acquire(w)
    /\ pc' = [pc EXCEPT ![w] = InsideOf(pc[w])]
    /\ lastOp' = NoOp
    /\ UNCHANGED <<clockVars, limiterVars, req_user, analyticsVars, gemini_available,
                   analytics_lock, tracked, chat>>

\* check_rate_limit returns and the lock is released; a rejection is
\* answered 429
LockCheckExit(w) ==
    /\ pc[w] = "check_in"
    /\ check_rate_limit(req_user[w])
    /\ limiter_lock' = lock_release(w)
    /\ pc' = [pc EXCEPT ![w] = IF lastOp'.allowed THEN "record_wait" ELSE "idle"]
    /\ chat' = [chat EXCEPT ![w] =
                   IF lastOp'.allowed THEN NoChat
                   ELSE [NoChat EXCEPT !.status = 429,
                                       !.retry_after = lastOp'.retry_after]]
    /\ UNCHANGED <<clockVars, req_user, analyticsVars, gemini_available,
                   analytics_lock, tracked>>

\* record_request returns and the lock is released; the handler starts
LockRecordExit(w) ==
    /\ pc[w] = "record_in"
    /\ record_request(req_user[w])
    /\ limiter_lock' = lock_release(w)
    /\ lastOp' = [NoOp EXCEPT !.op = "record_request", !.user = req_user[w]]
    /\ pc' = [pc EXCEPT ![w] = "track_wait"]
    /\ UNCHANGED <<clockVars, req_user, analyticsVars, gemini_available,
                   analytics_lock, tracked, chat>>

\* track_message, track_response_time, track_error: the lock is taken
LockAnalyticsEnter(w) ==
    /\ pc[w] \in AnalyticsWaits
    /\ lock_acquire(w)
    /\ pc' = [pc EXCEPT ![w] = InsideOf(pc[w])]
    /\ lastOp' = NoOp
    /\ UNCHANGED <<clockVars, limiterVars, req_user, analyticsVars, gemini_available,
                   limiter_lock, tracked, chat>>

\* track_message returns and the lock is released; the timer starts and
\* generate_response enters the retry loop
LockTrackExit(w) ==
    /\ pc[w] = "track_in"
    /\ track_message(handler_user_id(body_user_id(req_user[w]), total_messages + 1))
    /\ analytics_lock' = lock_release(w)
    /\ chat' = [chat EXCEPT ![w].user_id =
                   handler_user_id(body_user_id(req_user[w]), total_messages + 1),
                            ![w].start_time = now,
                            ![w].attempt = 0]
    /\ pc' = [pc EXCEPT ![w] = IF short_circuit(gemini_available)
                               THEN "timer_wait" ELSE "attempt"]
    /\ lastOp' = NoOp
    /\ UNCHANGED <<clockVars, limiterVars, req_user, response_times, daily_errors,
                   total_errors, gemini_available, limiter_lock, tracked>>

\* one backend call: it answers, or fails; after a rate-limit failure the
\* worker sleeps until wake_at
LockAttempt(w, ok, e) ==
    /\ pc[w] = "attempt"
    /\ IF ~ok /\ IsRateLimitError(e)
       THEN /\ chat' = [chat EXCEPT ![w].calls = @ + 1,
                                    ![w].wait_time = wait_time_of(chat[w].attempt),
                                    ![w].wake_at =
                                        now + wait_time_of(chat[w].attempt) * UnitsPerSecond]
            /\ pc' = [pc EXCEPT ![w] = "sleep"]
       ELSE /\ chat' = [chat EXCEPT ![w].calls = @ + 1]
            /\ pc' = [pc EXCEPT ![w] = "timer_wait"]
    /\ lastOp' = NoOp
    /\ UNCHANGED <<clockVars, limiterVars, req_user, analyticsVars, gemini_available,
                   lockVars>>

\* time passes until the next sleeper is due
LockClock ==
    LET due == {chat[w].wake_at : w \in {v \in Workers : pc[v] = "sleep"}}
    IN  /\ \E t \in due : t > now
        /\ \A t \in due : t > now
        /\ now' = CHOOSE t \in due : \A other \in due : t <= other
        /\ lastOp' = NoOp
        /\ UNCHANGED <<ticks, limiterVars, pc, req_user, analyticsVars,
                       gemini_available, lockVars, chat>>

\* time.sleep returns: the next attempt, or the loop is exhausted
LockWake(w) ==
    /\ pc[w] = "sleep"
    /\ now >= chat[w].wake_at
    /\ chat' = [chat EXCEPT ![w].attempt = @ + 1]
    /\ pc' = [pc EXCEPT ![w] = IF next_attempt(chat[w].attempt)
                               THEN "attempt" ELSE "timer_wait"]
    /\ lastOp' = NoOp
    /\ UNCHANGED <<clockVars, limiterVars, req_user, analyticsVars, gemini_available,
                   lockVars>>

\* ResponseTimer.__exit__: track_response_time returns and the lock is
\* released
LockTimerExit(w) ==
    /\ pc[w] = "timer_in"
    /\ track_response_time(ToMillis(now - chat[w].start_time))
    /\ analytics_lock' = lock_release(w)
    /\ pc' = [pc EXCEPT ![w] = "commit"]
    /\ lastOp' = NoOp
    /\ UNCHANGED <<clockVars, limiterVars, req_user, daily_messages, daily_errors,
                   total_messages, total_errors, gemini_available, limiter_lock,
                   tracked, chat>>

\* the commit succeeds, or raises into the handler's except branch
LockCommit(w, ok) ==
    /\ pc[w] = "commit"
    /\ pc' = [pc EXCEPT ![w] = IF ok THEN "usage_wait" ELSE "error_wait"]
    /\ lastOp' = NoOp
    /\ UNCHANGED <<clockVars, limiterVars, req_user, analyticsVars, gemini_available,
                   lockVars, chat>>

\* track_error returns and the lock is released; the answer is 500
LockErrorExit(w) ==
    /\ pc[w] = "error_in"
    /\ track_error
    /\ analytics_lock' = lock_release(w)
    /\ chat' = [chat EXCEPT ![w].status = 500, ![w].raised = TRUE,
                            ![w].errors = @ + 1]
    /\ pc' = [pc EXCEPT ![w] = "idle"]
    /\ lastOp' = NoOp
    /\ UNCHANGED <<clockVars, limiterVars, req_user, daily_messages, response_times,
                   total_messages, gemini_available, limiter_lock, tracked>>

\* get_usage returns and the lock is released; the answer is 200
LockUsageExit(w) ==
    /\ pc[w] = "usage_in"
    /\ get_usage(chat[w].user_id)
    /\ limiter_lock' = lock_release(w)
    /\ chat' = [chat EXCEPT ![w].status = 200]
    /\ pc' = [pc EXCEPT ![w] = "idle"]
    /\ UNCHANGED <<clockVars, req_user, analyticsVars, gemini_available,
                   analytics_lock, tracked>>

\* the steps worker w can take
LockStep(w) ==
    \/ LockLimiterEnter(w)
    \/ LockCheckExit(w)
    \/ LockRecordExit(w)
    \/ LockAnalyticsEnter(w)
    \/ LockTrackExit(w)
    \/ \E ok \in BOOLEAN, e \in BackendErrors : LockAttempt(w, ok, e)
    \/ LockWake(w)
    \/ LockTimerExit(w)
    \/ \E ok \in BOOLEAN : LockCommit(w, ok)
    \/ LockErrorExit(w)
    \/ LockUsageExit(w)

\* --------------------------------------------------------- specifications
InitCommon ==
    /\ now = 0
    /\ ticks = 0
    /\ minute_requests = <<>>
    /\ day_requests = <<>>
    /\ pc = [w \in Workers |-> "idle"]
    /\ req_user = [w \in Workers |-> "none"]
    /\ recorded = [u \in Identities |-> <<>>]
    /\ pending = [u \in Identities |-> NoPending]
    /\ lastOp = NoOp
    /\ daily_messages = <<>>
    /\ response_times = <<>>
    /\ daily_errors = <<>>
    /\ total_messages = 0
    /\ total_errors = 0
    /\ chat = [w \in Workers |-> NoChat]
    /\ analytics_lock = "free"
    /\ tracked = <<>>
    /\ limiter_lock = "free"

Init ==
    /\ InitCommon
    /\ gemini_available = TRUE

\* concurrent requests through the decorator, usage queries, admin resets
Next ==
    \/ \E w \in Workers, u \in Users : DecoratedCheck(w, u)
    \/ \E w \in Workers : DecoratedRecord(w)
    \/ \E w \in Workers : DecoratedHandler(w)
    \/ \E u \in Users : UsageQuery(u)
    \/ \E u \in Users : AdminReset(u)
    \/ \E d \in TickDeltas : Tick(d, MaxTicksRoute)
    \/ \E u \in Users : WaitRetryAfter(u, MaxTicksRoute)

Spec == Init /\ [][Next]_vars

\* one request at a time: the same operations with a single worker
NextSeq ==
    \/ \E u \in Users : DecoratedCheck("w1", u)
    \/ DecoratedRecord("w1")
    \/ DecoratedHandler("w1")
    \/ \E u \in Users : UsageQuery(u)
    \/ \E u \in Users : AdminReset(u)
    \/ \E d \in TickDeltas : Tick(d, MaxTicks)
    \/ \E u \in Users : WaitRetryAfter(u, MaxTicks)

SpecSeq == Init /\ [][NextSeq]_vars

\* the chat send route served by one worker, with the stats route; at most
\* MaxChatRequests requests are admitted
ChatRequest(w, body) ==
    /\ DecoratedCheck(w, decorator_user_id(body))
    /\ lastOp'.allowed => TotalRecorded(Identities) < MaxChatRequests

ChatTickDeltas == {25 * 3600 * UnitsPerSecond}

\* more than a day passes between two requests
ChatTick(delta) ==
    /\ \A w \in Workers : pc[w] = "idle"
    /\ Tick(delta, MaxTicksChat)

InitChat ==
    /\ InitCommon
    /\ gemini_available \in {init_available(key_configured, init_ok) :
                                key_configured \in BOOLEAN, init_ok \in BOOLEAN}

NextChat ==
    \/ \E body \in Users : ChatRequest("w1", body)
    \/ DecoratedRecord("w1")
    \/ \E valid \in BOOLEAN : SendValidate("w1", valid)
    \/ \E ok \in BOOLEAN : SendStore("w1", ok)
    \/ SendGenerate("w1")
    \/ GenSuccess("w1")
    \/ \E e \in BackendErrors : GenFailure("w1", e)
    \/ GenSleep("w1")
    \/ SendTimerExit("w1")
    \/ \E ok \in BOOLEAN : SendCommit("w1", ok)
    \/ SendUsage("w1")
    \/ StatsQuery
    \/ \E d \in ChatTickDeltas : ChatTick(d)

SpecChat == InitChat /\ [][NextChat]_vars

\* the limiter used for two identities: requests through the decorator one
\* at a time, usage queries, resets and clock advances
NextIsolation ==
    \/ \E u \in Identities : DecoratedCheck("w1", u)
    \/ DecoratedRecord("w1")
    \/ DecoratedHandler("w1")
    \/ \E u \in Identities : UsageQuery(u)
    \/ \E u \in Identities : AdminReset(u)
    \/ \E d \in {MinuteSpan * UnitsPerSecond} : Tick(d, MaxTicksChat)

SpecIsolation == Init /\ [][NextIsolation]_vars

\* the chat send route with callers that send a user_id and callers that
\* send none
NextAnon ==
    \/ \E body \in Users \cup {"none"} : ChatRequest("w1", body)
    \/ DecoratedRecord("w1")
    \/ \E valid \in BOOLEAN : SendValidate("w1", valid)
    \/ \E ok \in BOOLEAN : SendStore("w1", ok)
    \/ SendGenerate("w1")
    \/ GenSuccess("w1")
    \/ \E e \in BackendErrors : GenFailure("w1", e)
    \/ GenSleep("w1")
    \/ SendTimerExit("w1")
    \/ \E ok \in BOOLEAN : SendCommit("w1", ok)
    \/ SendUsage("w1")
    \/ StatsQuery
    \/ \E d \in ChatTickDeltas : ChatTick(d)

SpecAnon == InitChat /\ [][NextAnon]_vars

\* the analytics aggregator called directly by two callers in parallel, at
\* most MaxAnalyticsCalls track_* calls, across a change of date
NextAnalytics ==
    \/ \E w \in Workers, call \in AnalyticsCalls : AnCall(w, call)
    \/ \E w \in Workers : AnEnter(w)
    \/ \E w \in Workers : AnExit(w)
    \/ \E u \in AnalyticsUsers : AnUserStats(u)
    \/ AnSystemStats
    \/ \E d \in ChatTickDeltas : Tick(d, MaxTicksChat)

SpecAnalytics == Init /\ [][NextAnalytics]_vars

\* the backend fails only during the first MaxLockClock seconds
LockBackend(w, ok, e) ==
    /\ ok \/ now < MaxLockClock * UnitsPerSecond
    /\ LockAttempt(w, ok, e)

\* the chat send route served by two workers, every lock acquisition and
\* release a step of its own
NextLocks ==
    \/ \E w \in Workers, body \in Users : LockRequest(w, body)
    \/ \E w \in Workers : LockLimiterEnter(w)
    \/ \E w \in Workers : LockCheckExit(w)
    \/ \E w \in Workers : LockRecordExit(w)
    \/ \E w \in Workers : LockAnalyticsEnter(w)
    \/ \E w \in Workers : LockTrackExit(w)
    \/ \E w \in Workers, ok \in BOOLEAN, e \in BackendErrors : LockBackend(w, ok, e)
    \/ LockClock
    \/ \E w \in Workers : LockWake(w)
    \/ \E w \in Workers : LockTimerExit(w)
    \/ \E w \in Workers, ok \in BOOLEAN : LockCommit(w, ok)
    \/ \E w \in Workers : LockErrorExit(w)
    \/ \E w \in Workers : LockUsageExit(w)

SpecLocks == Init /\ [][NextLocks]_vars

\* the counters of the aggregator: messages and errors tracked by two
\* callers in parallel, with the three reading methods, across a change of
\* date
CountingCalls == {call \in AnalyticsCalls : call.op # "track_response_time"}

NextCounts ==
    \/ \E w \in Workers, call \in CountingCalls : AnCall(w, call)
    \/ \E w \in Workers : AnEnter(w)
    \/ \E w \in Workers : AnExit(w)
    \/ \E u \in AnalyticsUsers : AnUserStats(u)
    \/ AnSystemStats
    \/ \E back \in {0, 1} : AnDailyReport(DateKey(now) - back)
    \/ \E d \in ChatTickDeltas : Tick(d, MaxTicksChat)

SpecCounts == Init /\ [][NextCounts]_vars

\* generate_response called directly, one call after another by one caller,
\* each call started before MaxGenClock seconds; the caller's thread keeps
\* running, so a call in progress takes its next step
GenerateCall(w) ==
    /\ pc[w] = "idle"
    /\ now < MaxGenClock * UnitsPerSecond
    /\ chat' = [chat EXCEPT ![w] = NoChat]
    /\ pc' = [pc EXCEPT ![w] = "generate"]
    /\ lastOp' = NoOp
    /\ UNCHANGED <<clockVars, limiterVars, req_user, analyticsVars,
                   gemini_available, lockVars>>

\* the dict is returned to the caller
GenerateReturn(w) ==
    /\ pc[w] = "timer_exit"
    /\ pc' = [pc EXCEPT ![w] = "idle"]
    /\ lastOp' = NoOp
    /\ UNCHANGED <<clockVars, limiterVars, req_user, analyticsVars,
                   gemini_available, lockVars, chat>>

GenerateStep(w) ==
    \/ SendGenerate(w)
    \/ GenSuccess(w)
    \/ \E e \in BackendErrors : GenFailure(w, e)
    \/ GenSleep(w)
    \/ GenerateReturn(w)

NextGemini ==
    \/ GenerateCall("w1")
    \/ SendGenerate("w1")
    \/ GenSuccess("w1")
    \/ \E e \in BackendErrors : GenFailure("w1", e)
    \/ GenSleep("w1")
    \/ GenerateReturn("w1")

SpecGemini == InitChat /\ [][NextGemini]_vars /\ WF_vars(GenerateStep("w1"))

\* _build_context_prompt applied to every input
NextPrompt ==
    \E prompt \in PromptMessages, history \in PromptHistories, context \in PromptContexts :
        BuildContextPrompt(prompt, history, context)

SpecPrompt == Init /\ [][NextPrompt]_vars

\* messages of up to MaxReportUsers identities, a change of date, and the
\* daily report of each date
NextReport ==
    \/ \E i \in 1..MaxReportUsers : ReportTrack(i)
    \/ \E back \in {0, 1} : DailyReport(DateKey(now) - back)
    \/ \E d \in ChatTickDeltas : ReportTick(d)

SpecReport == Init /\ [][NextReport]_vars

\* timed scopes opened by two callers, each body ending normally or by raising
NextTimer ==
    \/ \E w \in Workers : TimerEnter(w)
    \/ \E w \in Workers, d \in TickDeltas, raises \in BOOLEAN : ScopeBody(w, d, raises)
    \/ \E w \in Workers : ScopeExit(w)

SpecTimer == Init /\ [][NextTimer]_vars

\* ------------------------------------------------------------ properties
\* the number of timestamps of list s inside the window of `span` seconds
\* that ends at time t
InWindow(s, t, span) == CountNewer(s, t - span * UnitsPerSecond)

\* the samples of the trailing 24 hours
FreshSamples(samples, t) ==
    SelectSeq(samples, LAMBDA s : s[1] > t - DaySpan * UnitsPerSecond)

\* C1: under any interleaving of requests through the decorator, the
\* timestamps recorded for an identity inside any rolling 60-second window
\* never exceed requests_per_minute, and inside any 86400-second window never
\* exceed requests_per_day.
C1_AtomicAdmission ==
    \A u \in Users : \A i \in 1..Len(recorded[u]) :
        /\ InWindow(SubSeq(recorded[u], 1, i), recorded[u][i], MinuteSpan)
              <= requests_per_minute
        /\ InWindow(SubSeq(recorded[u], 1, i), recorded[u][i], DaySpan)
              <= requests_per_day

\* C2: an identity with fewer than requests_per_minute recorded requests in
\* the trailing 60 seconds and fewer than requests_per_day in the trailing
\* 86400 seconds is admitted by check_rate_limit: (True, None, None).
C2_AdmitsUnderLimits ==
    (/\ lastOp.op = "check_rate_limit"
     /\ InWindow(recorded[lastOp.user], now, MinuteSpan) < requests_per_minute
     /\ InWindow(recorded[lastOp.user], now, DaySpan) < requests_per_day)
    => (lastOp.allowed /\ lastOp.kind = "none" /\ lastOp.retry_after = 0)

\* an admission after earlier requests of the identity have left the
\* minute window
C2_Witness ==
    /\ lastOp.op = "check_rate_limit"
    /\ lastOp.allowed
    /\ Len(recorded[lastOp.user]) >= requests_per_minute
    /\ InWindow(recorded[lastOp.user], now, MinuteSpan) < requests_per_minute

\* C3: once requests_per_minute admissions of an identity lie within the
\* trailing 60 seconds, the next check_rate_limit in that window is rejected
\* and carries retry_after >= 1.
C3_RejectsAfterLimit ==
    (/\ lastOp.op = "check_rate_limit"
     /\ InWindow(recorded[lastOp.user], now, MinuteSpan) >= requests_per_minute)
    => (~lastOp.allowed /\ lastOp.retry_after >= 1)

\* a rejection after exactly requests_per_minute admissions, some time after
\* the first of them
C3_Witness ==
    /\ lastOp.op = "check_rate_limit"
    /\ ~lastOp.allowed
    /\ InWindow(recorded[lastOp.user], now, MinuteSpan) = requests_per_minute
    /\ Len(recorded[lastOp.user]) = requests_per_minute
    /\ recorded[lastOp.user][1] < now

\* C4: every rejection carries a retry_after of at least 1 and at most the
\* span of the window that rejected: 1..60 for the minute limit, 1..86400 for
\* the day limit, whatever the age of the oldest retained timestamp.
C4_RetryAfterWithinWindow ==
    (lastOp.op = "check_rate_limit" /\ ~lastOp.allowed)
    => /\ lastOp.retry_after >= 1
       /\ lastOp.kind = "minute" => lastOp.retry_after <= MinuteSpan
       /\ lastOp.kind = "day" => lastOp.retry_after <= DaySpan

\* C5: a rejection with retry_after = r at time T, followed by no further
\* record for the identity, is followed by an admission at time T + r.
C5_RetryAfterRecovers ==
    (lastOp.op = "check_rate_limit" /\ lastOp.due) => lastOp.allowed

\* C6 as stated: get_usage leaves the stored minute and day collections,
\* the set of identities with an entry included, exactly as they were.
C6_UsageLeavesStateUnchanged ==
    [][lastOp'.op = "get_usage"
         => /\ minute_requests' = minute_requests
            /\ day_requests' = day_requests]_vars

\* the way get_usage may change the list `old` of an identity into `new`:
\* expired timestamps go, every other timestamp stays, none is added
OnlyPruned(old, new, t, span) ==
    \A v \in Range(old) \cup Range(new) \cup {t} :
        Occurrences(new, v) =
            IF v > t - span * UnitsPerSecond THEN Occurrences(old, v) ELSE 0

\* C6 as amended: get_usage reports the counts after pruning and records no
\* timestamp; all it does to the stored state is to drop the identity's
\* expired timestamps (creating an empty entry for an unseen identity), and
\* every other identity's collections stay as they were.
C6_UsageOnlyPrunes ==
    [][lastOp'.op = "get_usage"
         => LET u == lastOp'.user
            IN  /\ recorded' = recorded
                /\ DOMAIN minute_requests' = DOMAIN minute_requests \cup {u}
                /\ DOMAIN day_requests' = DOMAIN day_requests \cup {u}
                /\ \A x \in DOMAIN minute_requests \ {u} :
                       minute_requests'[x] = minute_requests[x]
                /\ \A x \in DOMAIN day_requests \ {u} :
                       day_requests'[x] = day_requests[x]
                /\ OnlyPruned(Get(minute_requests, u), minute_requests'[u],
                              now, MinuteSpan)
                /\ OnlyPruned(Get(day_requests, u), day_requests'[u],
                              now, DaySpan)
                /\ lastOp'.minute_count = Len(minute_requests'[u])
                /\ lastOp'.day_count = Len(day_requests'[u])
                /\ lastOp'.minute_remaining =
                       requests_per_minute - Len(minute_requests'[u])
                /\ lastOp'.day_remaining =
                       requests_per_day - Len(day_requests'[u])]_vars

\* a usage query that found expired timestamps in the minute list and live
\* ones in the day list
C6_Witness ==
    /\ lastOp.op = "get_usage"
    /\ lastOp.day_count > 0
    /\ lastOp.minute_count < lastOp.day_count

\* C7: at every read (check_rate_limit, get_usage) the counts cover exactly
\* the timestamps inside the respective window at that moment, and the
\* stored lists hold no older one; when all recorded timestamps of the
\* identity are older than 60 seconds get_usage reports 0 for the minute.
C7_CountsOnlyWindow ==
    lastOp.op \in {"check_rate_limit", "get_usage"}
    => LET u == lastOp.user
       IN  /\ lastOp.minute_count = InWindow(recorded[u], now, MinuteSpan)
           /\ lastOp.day_count = InWindow(recorded[u], now, DaySpan)
           /\ \A i \in 1..Len(minute_requests[u]) :
                  now - minute_requests[u][i] < MinuteSpan * UnitsPerSecond
           /\ \A i \in 1..Len(day_requests[u]) :
                  now - day_requests[u][i] < DaySpan * UnitsPerSecond
           /\ (/\ lastOp.op = "get_usage"
               /\ \A i \in 1..Len(recorded[u]) :
                      now - recorded[u][i] > MinuteSpan * UnitsPerSecond)
              => lastOp.minute_count = 0

\* a usage query of an identity all of whose requests are older than a
\* minute and still inside the day
C7_Witness ==
    /\ lastOp.op = "get_usage"
    /\ lastOp.minute_count = 0
    /\ lastOp.day_count >= requests_per_minute
    /\ \A i \in 1..Len(recorded[lastOp.user]) :
           now - recorded[lastOp.user][i] > MinuteSpan * UnitsPerSecond

\* C8: reset_user empties both lists of the identity from any state; a
\* get_usage right after it reports 0 in both windows and a check_rate_limit
\* right after it admits.
C8_ResetClears ==
    [][/\ lastOp'.op = "reset_user"
          => /\ minute_requests'[lastOp'.user] = <<>>
             /\ day_requests'[lastOp'.user] = <<>>
       /\ (/\ lastOp.op = "reset_user"
           /\ lastOp'.op = "get_usage"
           /\ lastOp'.user = lastOp.user)
          => (lastOp'.minute_count = 0 /\ lastOp'.day_count = 0)
       /\ (/\ lastOp.op = "reset_user"
           /\ lastOp'.op = "check_rate_limit"
           /\ lastOp'.user = lastOp.user)
          => lastOp'.allowed]_vars

\* a reset of an identity that was over both limits
C8_Witness ==
    /\ lastOp.op = "reset_user"
    /\ lastOp.minute_count >= requests_per_minute
    /\ lastOp.day_count >= requests_per_day

\* C9: a chat request whose backend call failed, or whose handling raised,
\* has incremented the error counter exactly once when it is answered.
C9_ErrorCountedOnce ==
    \A w \in Workers :
        (/\ chat[w].status \in {200, 500}
         /\ chat[w].backend_failed \/ chat[w].raised)
        => chat[w].errors = 1

\* C10: get_system_stats reports the number and the average of the samples
\* of the trailing 24 hours only.
C10_StatsOnlyLastDay ==
    lastOp.op = "get_system_stats"
    => /\ lastOp.response_samples = Len(FreshSamples(response_times, now))
       /\ lastOp.avg_response_time_ms = AverageMs(FreshSamples(response_times, now))

\* the completed calls of `tracked` that satisfy Test
TrackedCalls(Test(_)) == Cardinality({i \in 1..Len(tracked) : Test(tracked[i])})

\* C11: track_message called k times for an identity on one UTC day,
\* interleaved with track_message for other identities and with the other
\* analytics operations, makes get_user_stats of that identity on that day
\* report messages_today = k.
C11_MessagesTodayCountsCalls ==
    lastOp.op = "get_user_stats" =>
        lastOp.messages_today =
            TrackedCalls(LAMBDA c : /\ c.op = "track_message"
                                    /\ c.user_id = lastOp.user
                                    /\ c.date_key = DateKey(now))

\* the identity has two messages today, another identity has one in between
C11_Witness ==
    /\ lastOp.op = "get_user_stats"
    /\ lastOp.messages_today = 2
    /\ Len(tracked) = 3
    /\ tracked[2].op = "track_message"
    /\ tracked[2].user_id # lastOp.user
    /\ tracked[2].date_key = DateKey(now)

\* every date that has an entry or a completed call
SeenDates ==
    (DOMAIN daily_messages) \cup (DOMAIN daily_errors)
        \cup {tracked[i].date_key : i \in 1..Len(tracked)}

\* the samples a sequential execution of the completed track_response_time
\* calls retains: those of the last 24 hours before the latest of them
SequentialSamples ==
    LET calls == SelectSeq(tracked, LAMBDA c : c.op = "track_response_time")
        all == [i \in 1..Len(calls) |-> <<calls[i].at, calls[i].duration_ms>>]
    IN  IF calls = <<>> THEN <<>>
        ELSE SelectSeq(all, LAMBDA x :
                 x[1] > calls[Len(calls)].at - DaySpan * UnitsPerSecond)

\* C12: track_message, track_response_time and track_error are atomic under
\* concurrent callers: when no call is in progress, the per-identity daily
\* counts, total_messages, the error counters and the retained samples are
\* those of the completed calls executed one after another.
C12_TrackCallsAtomic ==
    (\A w \in Workers : pc[w] = "idle") =>
        /\ total_messages = TrackedCalls(LAMBDA c : c.op = "track_message")
        /\ total_errors = TrackedCalls(LAMBDA c : c.op = "track_error")
        /\ \A d \in SeenDates :
              /\ GetCount(daily_errors, d) =
                     TrackedCalls(LAMBDA c : c.op = "track_error" /\ c.date_key = d)
              /\ \A u \in AnalyticsUsers :
                     UserCount(UserCounts(daily_messages, d), u) =
                         TrackedCalls(LAMBDA c : /\ c.op = "track_message"
                                                 /\ c.user_id = u
                                                 /\ c.date_key = d)
        /\ response_times = SequentialSamples

\* two track_message calls for one identity on one day have completed,
\* together with a third call
C12_Witness ==
    /\ \A w \in Workers : pc[w] = "idle"
    /\ Len(tracked) = 3
    /\ tracked[1].op = "track_message"
    /\ tracked[3] = tracked[1]
    /\ tracked[2].op = "track_response_time"

\* C13: ResponseTimer reports on every exit path and suppresses nothing: when
\* a timed scope ends, track_response_time has run exactly once with the
\* scope's duration; track_error has run exactly once if the scope was left by
\* an exception and not at all otherwise; and the exception still propagates.
C13_TimerReportsEveryExit ==
    [][\A w \in Workers :
          (pc[w] = "exiting" /\ pc'[w] = "idle") =>
              LET raised == IF chat[w].exc THEN 1 ELSE 0
                  n == Len(response_times')
              IN  /\ n >= 1
                  /\ response_times'[n] = <<now, ToMillis(now - chat[w].start_time)>>
                  /\ SubSeq(response_times', 1, n - 1) =
                         SelectSeq(response_times,
                                   LAMBDA x : x[1] > now - DaySpan * UnitsPerSecond)
                  /\ total_errors' = total_errors + raised
                  /\ GetCount(daily_errors', DateKey(now)) =
                         GetCount(daily_errors, DateKey(now)) + raised
                  /\ chat'[w].propagated = chat[w].exc]_vars

\* one scope has ended normally and another by an exception, which propagated
C13_Witness ==
    /\ \E w \in Workers : pc[w] = "idle" /\ chat[w].exc /\ chat[w].propagated
    /\ \E w \in Workers : pc[w] = "idle" /\ chat[w].start_time > 0 /\ ~chat[w].exc
                          /\ ~chat[w].propagated
    /\ Len(response_times) = 2
    /\ total_errors = 1

\* the texts generate_response can return
DisplayTexts == {"response", "config_fallback", "high_demand", "rephrase", "trouble"}

\* C14: generate_response never lets a backend failure escape: whatever the
\* backend does on each attempt, the call ends by returning one of the
\* displayable texts, and no exception leaves it.
C14_NoFailureEscapes ==
    /\ ~chat["w1"].exc
    /\ pc["w1"] = "timer_exit" => chat["w1"].text \in DisplayTexts

\* a call ended after a backend failure that is not retried
C14_Witness ==
    /\ pc["w1"] = "timer_exit"
    /\ chat["w1"].backend_failed
    /\ chat["w1"].last_exception = {}
    /\ chat["w1"].text = "trouble"

\* C15: generate_response always terminates, after at most max_retries (3)
\* backend attempts: the attempts of a call never exceed max_retries, and a
\* call that has started reaches its return.
C15_TerminatesWithinMaxRetries ==
    /\ [](chat["w1"].calls <= max_retries)
    /\ (pc["w1"] = "generate") ~> (pc["w1"] = "timer_exit")

\* a call has returned after max_retries failed attempts
C15_Witness ==
    /\ pc["w1"] = "idle"
    /\ chat["w1"].calls = max_retries
    /\ chat["w1"].backend_failed
    /\ chat["w1"].text # "none"

\* the outcomes of the backend attempts of a call, in order
AttemptOutcomes(events) ==
    LET attempts == SelectSeq(events, LAMBDA ev : ev.kind = "attempt")
    IN  [i \in 1..Len(attempts) |-> attempts[i].outcome]

\* C16: when the backend fails with a quota error on the first two attempts
\* and answers on the third, generate_response returns the answer after
\* exactly three attempts and exactly two sleeps, of 2 s and then 4 s, each
\* between a failed attempt and the next attempt.
C16_TwoQuotaFailuresThenSuccess ==
    AttemptOutcomes(chat["w1"].events) = <<"rate_limit", "rate_limit", "ok">> =>
        /\ chat["w1"].events =
               <<[kind |-> "attempt", outcome |-> "rate_limit", secs |-> 0],
                 [kind |-> "sleep", outcome |-> "none", secs |-> 2],
                 [kind |-> "attempt", outcome |-> "rate_limit", secs |-> 0],
                 [kind |-> "sleep", outcome |-> "none", secs |-> 4],
                 [kind |-> "attempt", outcome |-> "ok", secs |-> 0]>>
        /\ chat["w1"].calls = 3
        /\ chat["w1"].sleeps = <<2, 4>>
        /\ chat["w1"].text = "response"
        /\ ~chat["w1"].backend_failed

\* such a call has returned
C16_Witness ==
    /\ pc["w1"] = "idle"
    /\ AttemptOutcomes(chat["w1"].events) = <<"rate_limit", "rate_limit", "ok">>
    /\ chat["w1"].last_exception = {"quota"}

\* C17: a backend failure that is not a rate-limit or quota signal ends the
\* retry loop at once: the step in which such an attempt fails ends the call,
\* with no sleep added, and the text returned is the one for that failure.
C17_OtherFailureAbortsAtOnce ==
    [][LET before == chat["w1"]
           after == chat'["w1"]
           e == after.last_exception
       IN  (/\ after.calls = before.calls + 1
            /\ after.text # "response"
            /\ "429" \notin e
            /\ "quota" \notin e) =>
               /\ pc'["w1"] = "timer_exit"
               /\ after.sleeps = before.sleeps
               /\ after.wait_time = before.wait_time
               /\ after.backend_failed
               /\ after.text = IF "safety" \in e THEN "rephrase" ELSE "trouble"]_vars

\* the second attempt of a call failed with an error that is not retried
C17_Witness ==
    /\ pc["w1"] = "timer_exit"
    /\ chat["w1"].calls = 2
    /\ chat["w1"].sleeps = <<2>>
    /\ chat["w1"].last_exception = {"safety"}
    /\ chat["w1"].text = "rephrase"

\* C18: the availability flag is set at construction and no request changes
\* it; when it is False every generate_response call returns the
\* configuration text with tokens_used None, without any backend attempt and
\* without any sleep.
C18_UnavailableShortCircuits ==
    /\ [][gemini_available' = gemini_available]_vars
    /\ []((~gemini_available /\ pc["w1"] = "timer_exit") =>
              /\ chat["w1"].text = "config_fallback"
              /\ chat["w1"].tokens_used = "none"
              /\ chat["w1"].calls = 0
              /\ chat["w1"].sleeps = <<>>
              /\ chat["w1"].events = <<>>)

\* an unavailable client has answered a call
C18_Witness ==
    /\ ~gemini_available
    /\ pc["w1"] = "idle"
    /\ chat["w1"].text = "config_fallback"
    /\ chat["w1"].calls = 0

\* C19: the text for a failed call is chosen by the class of the final
\* failure: a quota or rate error gives the high-demand text, a
\* content-safety rejection the rephrase text, any other error the generic
\* text; three quota failures in a row give the high-demand text.
C19_FailureTextByClass ==
    (pc["w1"] = "timer_exit" /\ chat["w1"].backend_failed) =>
        LET e == chat["w1"].last_exception
        IN  /\ ("429" \in e \/ "quota" \in e) => chat["w1"].text = "high_demand"
            /\ ("safety" \in e /\ "429" \notin e /\ "quota" \notin e) =>
                   chat["w1"].text = "rephrase"
            /\ ("safety" \notin e /\ "429" \notin e /\ "quota" \notin e) =>
                   chat["w1"].text = "trouble"
            /\ AttemptOutcomes(chat["w1"].events) =
                   <<"rate_limit", "rate_limit", "rate_limit">> =>
                       chat["w1"].text = "high_demand"

\* three quota failures in a row ended a call
C19_Witness ==
    /\ pc["w1"] = "timer_exit"
    /\ chat["w1"].backend_failed
    /\ AttemptOutcomes(chat["w1"].events) = <<"rate_limit", "rate_limit", "rate_limit">>
    /\ chat["w1"].last_exception = {"429", "safety"}
    /\ chat["w1"].text = "high_demand"

\* C20: the prompt is a function of (message, history, context) with its
\* parts in a fixed order: the system block; the history transcript, only if
\* the history is non-empty, holding exactly the most recent 10 turns (all of
\* them if there are fewer), oldest first; the context block, only if a
\* context is present; the current user message; the closing instruction.
C20_PromptPartsInOrder ==
    lastOp.op = "_build_context_prompt" =>
        LET h == lastOp.prompt_args.conversation_history
            context == lastOp.prompt_args.context
            parts == lastOp.parts
            n == Len(h)
            k == IF n > 10 THEN 10 ELSE n
            hasContext == context \notin {"none", ""}
            afterHistory == IF n > 0 THEN k + 3 ELSE 1
            afterContext == IF hasContext THEN afterHistory + 1 ELSE afterHistory
        IN  /\ Len(parts) = afterContext + 2
            /\ parts[1].tag = "system"
            /\ n > 0 =>
                  /\ parts[2].tag = "history_begin"
                  /\ \A i \in 1..k :
                        /\ parts[2 + i].tag = "turn"
                        /\ parts[2 + i].text = h[n - k + i].text
                        /\ parts[2 + i].label =
                               IF h[n - k + i].role = "user" THEN "User" ELSE "Assistant"
                  /\ parts[k + 3].tag = "history_end"
            /\ hasContext =>
                  /\ parts[afterContext].tag = "context"
                  /\ parts[afterContext].text = context
            /\ parts[afterContext + 1].tag = "message"
            /\ parts[afterContext + 1].text = lastOp.prompt_args.prompt
            /\ parts[afterContext + 2].tag = "closing"

\* a history of 12 turns with a context: the transcript starts at turn 3
C20_Witness ==
    /\ lastOp.op = "_build_context_prompt"
    /\ Len(lastOp.prompt_args.conversation_history) = 12
    /\ lastOp.prompt_args.context = "ctx"
    /\ Len(lastOp.parts) = 16
    /\ lastOp.parts[3].text = "t3"
    /\ lastOp.parts[12].text = "t12"

\* the position of the first message of identity u on date d among the
\* completed track_message calls
FirstTracked(u, d) ==
    CHOOSE k \in 1..Len(tracked) :
        /\ tracked[k].user_id = u /\ tracked[k].date_key = d
        /\ \A j \in 1..(k - 1) : ~(tracked[j].user_id = u /\ tracked[j].date_key = d)

\* the identities with a message on date d, and the number of their messages
TrackedUsers(d) ==
    {tracked[k].user_id : k \in {j \in 1..Len(tracked) : tracked[j].date_key = d}}

TrackedCount(u, d) ==
    Cardinality({k \in 1..Len(tracked) :
                    tracked[k].user_id = u /\ tracked[k].date_key = d})

\* item a of date d comes before item b in the report's order
RanksBefore(a, b, d) ==
    \/ TrackedCount(a, d) > TrackedCount(b, d)
    \/ /\ TrackedCount(a, d) = TrackedCount(b, d)
       /\ FirstTracked(a, d) < FirstTracked(b, d)

\* C21: get_daily_report(date) returns at most 10 top users of that date,
\* highest message count first, identities of equal count in the order in
\* which their first message of that date was tracked; total_messages is the
\* sum of that date's per-identity counts and unique_users the number of
\* identities counted on that date.
C21_DailyReportTopUsers ==
    lastOp.op = "get_daily_report" =>
        LET d == lastOp.date
            top == lastOp.top_users
            users == TrackedUsers(d)
            n == Cardinality(users)
        IN  /\ Len(top) = IF n > 10 THEN 10 ELSE n
            /\ \A i \in 1..Len(top) :
                  /\ top[i].user_id \in users
                  /\ top[i].count = TrackedCount(top[i].user_id, d)
            /\ \A i, j \in 1..Len(top) :
                  i < j => RanksBefore(top[i].user_id, top[j].user_id, d)
            /\ \A u \in users :
                  (\A i \in 1..Len(top) : top[i].user_id # u) =>
                      \A i \in 1..Len(top) : RanksBefore(top[i].user_id, u, d)
            /\ lastOp.report_total =
                   Cardinality({k \in 1..Len(tracked) : tracked[k].date_key = d})
            /\ lastOp.unique_users = n

\* eleven identities were counted on the date; the second one counted has the
\* most messages and leads, identities of equal count follow in the order in
\* which they were first counted, and the last one counted is cut off
C21_Witness ==
    /\ lastOp.op = "get_daily_report"
    /\ lastOp.unique_users = 11
    /\ Len(lastOp.top_users) = 10
    /\ lastOp.top_users[1].count = 3
    /\ lastOp.top_users[1].user_id = tracked[2].user_id
    /\ lastOp.top_users[2].user_id = tracked[1].user_id
    /\ lastOp.top_users[2].count = 1
    /\ lastOp.report_total = 13

\* the (date, identity, count) triples of the per-date message counts
MessageCounts(dm) ==
    UNION {{<<d, dm[d][k].user_id, dm[d][k].count>> : k \in 1..Len(dm[d])} :
              d \in DOMAIN dm}

C30_ChargedIdentityIsTrackedIdentity ==
    /\ chat["w1"].user_id # "none" => chat["w1"].user_id = req_user["w1"]
    /\ (chat["w1"].status = 200 /\ lastOp.op = "get_usage") =>
           /\ lastOp.user = req_user["w1"]
           /\ lastOp.minute_count >= 1
           /\ lastOp.minute_remaining < requests_per_minute
           /\ lastOp.day_remaining < requests_per_day

\* C24: every delay of the retry loop follows a rate-limit failure and lasts
\* retry_delay * 2^attempt seconds, and every delay is followed by another
\* attempt: a call that has left the loop did not end it with a delay.
C24_DelayAlwaysBeforeAnAttempt ==
    LET ev == chat["w1"].events
        attempts_before(k) == Cardinality({j \in 1..(k - 1) : ev[j].kind = "attempt"})
    IN  /\ \A k \in 1..Len(ev) :
              ev[k].kind = "sleep" =>
                  /\ k > 1
                  /\ ev[k - 1].outcome = "rate_limit"
                  /\ ev[k].secs = retry_delay * (2 ^ (attempts_before(k) - 1))
        /\ (pc["w1"] \notin {"attempt", "sleep"} /\ ev # <<>>) =>
              ev[Len(ev)].kind = "attempt"

\* C25: check_rate_limit tests the minute window before the day window.
\* With the minute count at or over its limit the request is rejected with
\* the minute message and a retry_after computed from the oldest minute
\* timestamp, whatever the day count; a day rejection is given only when the
\* minute window has capacity; the request is admitted exactly when both
\* windows have capacity.
C25_MinuteBeforeDay ==
    lastOp.op = "check_rate_limit" =>
        LET mlist == minute_requests[lastOp.user]
            dlist == day_requests[lastOp.user]
            minute_full == Len(mlist) >= requests_per_minute
            day_full == Len(dlist) >= requests_per_day
        IN  /\ minute_full =>
                  /\ ~lastOp.allowed
                  /\ lastOp.kind = "minute"
                  /\ lastOp.retry_after =
                         IntTrunc(MinuteSpan * UnitsPerSecond - (now - SeqMin(mlist))) + 1
            /\ (~minute_full /\ day_full) =>
                  /\ ~lastOp.allowed
                  /\ lastOp.kind = "day"
                  /\ lastOp.retry_after =
                         IntTrunc(DaySpan * UnitsPerSecond - (now - SeqMin(dlist))) + 1
            /\ lastOp.allowed <=> (~minute_full /\ ~day_full)
            /\ lastOp.allowed => lastOp.kind = "none"

\* both windows are at their limit and the rejection is the minute one
C25_Witness ==
    /\ lastOp.op = "check_rate_limit"
    /\ Len(minute_requests[lastOp.user]) >= requests_per_minute
    /\ Len(day_requests[lastOp.user]) >= requests_per_day
    /\ ~lastOp.allowed
    /\ lastOp.kind = "minute"

\* the identities with a list in either bucket, before or after a step
BucketKeys == (DOMAIN minute_requests) \cup (DOMAIN day_requests)

\* C26: in the decorator a worker comes to record_request only by a check
\* that admitted the same identity; a rejection appends no timestamp, moves
\* no worker toward the handler and is answered 429 with its retry_after; the
\* handler is entered only by the recording step, which appends exactly one
\* timestamp (the current time) to each bucket of the identity; no other
\* step appends a timestamp.
C26_RecordOnlyAfterAdmission ==
    [][LET recording == {w \in Workers : pc[w] = "record" /\ pc'[w] = "handler"}
       IN  /\ \A w \in Workers :
                 /\ (pc'[w] = "record" /\ pc[w] # "record") =>
                        /\ pc[w] = "idle"
                        /\ lastOp'.op = "check_rate_limit"
                        /\ lastOp'.allowed
                        /\ lastOp'.user = req_user'[w]
                 /\ pc[w] = "record" => req_user'[w] = req_user[w]
                 /\ (pc'[w] = "handler" /\ pc[w] # "handler") => w \in recording
                 /\ w \in recording =>
                        /\ minute_requests'[req_user[w]] =
                               Append(Get(minute_requests, req_user[w]), now)
                        /\ day_requests'[req_user[w]] =
                               Append(Get(day_requests, req_user[w]), now)
           /\ (lastOp'.op = "check_rate_limit" /\ ~lastOp'.allowed) =>
                 /\ pc' = pc
                 /\ lastOp'.retry_after >= 1
                 /\ \E w \in Workers :
                        /\ pc[w] = "idle"
                        /\ req_user'[w] = lastOp'.user
                        /\ chat'[w].status = 429
                        /\ chat'[w].retry_after = lastOp'.retry_after
           /\ recording = {} =>
                 \A u \in BucketKeys' :
                     /\ Len(Get(minute_requests', u)) <= Len(Get(minute_requests, u))
                     /\ Len(Get(day_requests', u)) <= Len(Get(day_requests, u))]_vars

\* one worker's request was admitted and recorded and is in the handler; the
\* other worker's request for the same identity has just been rejected
C26_Witness ==
    /\ lastOp.op = "check_rate_limit"
    /\ ~lastOp.allowed
    /\ pc["w1"] = "idle"
    /\ chat["w1"].status = 429
    /\ chat["w1"].retry_after = lastOp.retry_after
    /\ pc["w2"] = "handler"
    /\ req_user["w2"] = lastOp.user
    /\ Len(recorded[lastOp.user]) >= 1

\* C27: for every identity, each timestamp of the minute bucket is in the
\* day bucket at least as many times, so the minute count never exceeds the
\* day count; this holds after every record_request, pruning and reset_user.
C27_MinuteBucketWithinDayBucket ==
    \A u \in BucketKeys :
        /\ \A ts \in Range(Get(minute_requests, u)) :
              Occurrences(Get(minute_requests, u), ts)
                  <= Occurrences(Get(day_requests, u), ts)
        /\ Len(Get(minute_requests, u)) <= Len(Get(day_requests, u))

\* a request has just been recorded for an identity whose older timestamps
\* were pruned from the minute bucket and are still in the day bucket
C27_Witness ==
    /\ lastOp.op = "record_request"
    /\ Len(minute_requests[lastOp.user]) >= 1
    /\ Len(day_requests[lastOp.user]) > Len(minute_requests[lastOp.user])
    /\ \E ts \in Range(day_requests[lastOp.user]) :
           ts \notin Range(minute_requests[lastOp.user])

\* C28: an operation of the limiter on one identity leaves the stored
\* timestamps of every other identity as they were (no entry created,
\* removed or changed), and with them the other identity's admission decision
\* and usage counts at the current time.
C28_IdentitiesIsolated ==
    [][\A b \in Identities :
          (lastOp'.op \in {"check_rate_limit", "record_request", "get_usage", "reset_user"}
              /\ lastOp'.user # b) =>
              /\ (b \in DOMAIN minute_requests') <=> (b \in DOMAIN minute_requests)
              /\ (b \in DOMAIN day_requests') <=> (b \in DOMAIN day_requests)
              /\ Get(minute_requests', b) = Get(minute_requests, b)
              /\ Get(day_requests', b) = Get(day_requests, b)
              /\ LimitDecision(KeepNewer(Get(minute_requests', b),
                                         now' - MinuteSpan * UnitsPerSecond),
                               KeepNewer(Get(day_requests', b),
                                         now' - DaySpan * UnitsPerSecond), now')
                   = LimitDecision(KeepNewer(Get(minute_requests, b),
                                             now - MinuteSpan * UnitsPerSecond),
                                   KeepNewer(Get(day_requests, b),
                                             now - DaySpan * UnitsPerSecond), now)
              /\ InWindow(Get(minute_requests', b), now', MinuteSpan)
                   = InWindow(Get(minute_requests, b), now, MinuteSpan)
              /\ InWindow(Get(day_requests', b), now', DaySpan)
                   = InWindow(Get(day_requests, b), now, DaySpan)]_vars

\* one identity has just been reset while the other one is at its minute
\* limit
C28_Witness ==
    /\ lastOp.op = "reset_user"
    /\ lastOp.user = "u1"
    /\ lastOp.minute_count >= 1
    /\ minute_requests["u1"] = <<>>
    /\ RemoteAddr \in DOMAIN minute_requests
    /\ Len(minute_requests[RemoteAddr]) >= requests_per_minute

\* the sum of the counts of a set of (date, identity, count) triples
RECURSIVE SumTriples(_)
SumTriples(triples) ==
    IF triples = {} THEN 0
    ELSE LET t == CHOOSE x \in triples : TRUE
         IN  t[3] + SumTriples(triples \ {t})

\* the sum of the per-date error counts
RECURSIVE SumErrors(_, _)
SumErrors(de, dates) ==
    IF dates = {} THEN 0
    ELSE LET d == CHOOSE x \in dates : TRUE
         IN  de[d] + SumErrors(de, dates \ {d})

\* C29: total_messages is the sum of the per-(date, identity) message counts
\* and total_errors the sum of the per-date error counts; get_user_stats,
\* get_system_stats and get_daily_report change no count and no total; no
\* count and no total ever decreases.
C29_TotalsAreSumsAndCountsGrow ==
    /\ [](/\ total_messages = SumTriples(MessageCounts(daily_messages))
          /\ total_errors = SumErrors(daily_errors, DOMAIN daily_errors))
    /\ [][/\ lastOp'.op \in {"get_user_stats", "get_system_stats", "get_daily_report"} =>
                /\ MessageCounts(daily_messages') = MessageCounts(daily_messages)
                /\ \A d \in DOMAIN daily_errors' :
                       GetCount(daily_errors', d) = GetCount(daily_errors, d)
                /\ total_messages' = total_messages
                /\ total_errors' = total_errors
                /\ response_times' = response_times
          /\ \A t \in MessageCounts(daily_messages) :
                UserCount(UserCounts(daily_messages', t[1]), t[2]) >= t[3]
          /\ \A d \in DOMAIN daily_errors :
                GetCount(daily_errors', d) >= daily_errors[d]
          /\ total_messages' >= total_messages
          /\ total_errors' >= total_errors]_vars

\* messages of two identities and an error were counted on two dates, and a
\* daily report has just been read
C29_Witness ==
    /\ lastOp.op = "get_daily_report"
    /\ total_messages = 2
    /\ total_errors = 1
    /\ Cardinality(MessageCounts(daily_messages)) = 2
    /\ Cardinality({t[1] : t \in MessageCounts(daily_messages)}) = 2

\* the locks worker w holds
HeldBy(w) ==
    (IF limiter_lock = w THEN {"limiter"} ELSE {})
        \cup (IF analytics_lock = w THEN {"analytics"} ELSE {})

\* C23: a worker that waits for a lock, is in a backend call or sleeps in
\* backoff holds no lock, and no worker ever holds both locks; a lock is
\* held only by a worker inside the critical section, whose next step
\* releases it, so a worker in progress is never stuck: it can step, or it
\* waits for a lock whose holder can step, or it sleeps and time can pass
\* (at once, or after a sleeper that is due has woken).
\* While a worker sleeps, every lock is free or about to be released by a
\* worker that can step.
C23_NoLockHeldAcrossWaits ==
    /\ \A w \in Workers :
          /\ pc[w] \in LimiterWaits \cup AnalyticsWaits \cup {"attempt", "sleep", "commit", "idle"}
                => HeldBy(w) = {}
          /\ Cardinality(HeldBy(w)) <= 1
          /\ pc[w] # "idle" =>
                \/ ENABLED LockStep(w)
                \/ pc[w] \in LimiterWaits /\ limiter_lock \in Workers
                       /\ ENABLED LockStep(limiter_lock)
                \/ pc[w] \in AnalyticsWaits /\ analytics_lock \in Workers
                       /\ ENABLED LockStep(analytics_lock)
                \/ pc[w] = "sleep" /\ ENABLED LockClock
                \/ pc[w] = "sleep" /\ \E v \in Workers : pc[v] = "sleep" /\ ENABLED LockStep(v)
    /\ limiter_lock \in Workers => pc[limiter_lock] \in {"check_in", "record_in", "usage_in"}
    /\ analytics_lock \in Workers => pc[analytics_lock] \in {"track_in", "timer_in", "error_in"}

\* one worker sleeps in backoff, not yet due, while the other one is inside
\* get_usage after completing its own check, record and track calls
C23_Witness ==
    /\ pc["w1"] = "sleep"
    /\ chat["w1"].wake_at > now
    /\ pc["w2"] = "usage_in"
    /\ limiter_lock = "w2"
    /\ Len(recorded["u1"]) = 2
====
